---- MODULE Spec2Model ----
(***************************************************************************)
(* A model of dirorch, the directory-driven workflow orchestrator          *)
(* (src/dirorch): the workflow engine, its two phase processors, the hook  *)
(* runner, the entity store and the runtime state store.                   *)
(*                                                                         *)
(* Names (phase names, state names, file basenames) are sequences of       *)
(* one-character strings, so that the sort order of the listings and the   *)
(* numeric-prefix group key are computed from the characters, as the code  *)
(* computes them.  The empty sequence stands for Python's None wherever a  *)
(* name is optional.                                                       *)
(***************************************************************************)
EXTENDS Integers, Sequences, FiniteSets, TLC

\* ------------------------------------------------------------------ bounds
\* Largest number of files placed in the state directories before a run.
MaxFiles == 3
\* Largest value of the --retries override given on the command line.
MaxRetries == 1
\* Cap on the pass counter: a workflow whose transitions form a cycle never
\* reaches a fixpoint, and the model stops counting its passes here.
MaxPasses == 24
\* the number of times a run is interrupted and started again
MaxKills == 1

\* --------------------------------------------------------------- constants
None == <<>>
FAILED_STATE == <<"_", "f", "a", "i", "l", "e", "d">>
PHASE_MODE_TRANSITIONS == "transitions"
PHASE_MODE_ENTITY == "entity"

\* ------------------------------------------------------- strings and paths
\* Code point of a character (Python compares str by code point).
CharCode(c) ==
    CASE c = "-" -> 45
      [] c = "0" -> 48
      [] c = "1" -> 49
      [] c = "2" -> 50
      [] c = "_" -> 95
      [] c = "a" -> 97
      [] c = "b" -> 98
      [] c = "c" -> 99
      [] c = "d" -> 100
      [] c = "e" -> 101
      [] c = "f" -> 102
      [] c = "i" -> 105
      [] c = "l" -> 108
      [] c = "m" -> 109
      [] c = "n" -> 110
      [] c = "s" -> 115
      [] c = "t" -> 116
      [] c = "u" -> 117

IsDigit(c) == c \in {"0", "1", "2"}

\* s < t for Python strings: lexicographic by code point.
RECURSIVE StrLess(_, _)
StrLess(s, t) ==
    IF s = <<>> THEN t # <<>>
    ELSE IF t = <<>> THEN FALSE
    ELSE IF Head(s) = Head(t) THEN StrLess(Tail(s), Tail(t))
    ELSE CharCode(Head(s)) < CharCode(Head(t))

\* A file: <root>/<phase>/<state>/<name>.
Path(p, s, n) == [phase |-> p, state |-> s, name |-> n]
NoPath == Path(None, None, None)

\* The number of leading decimal digits of a name.
RECURSIVE LeadingDigits(_)
LeadingDigits(name) ==
    IF name # <<>> /\ IsDigit(Head(name)) THEN 1 + LeadingDigits(Tail(name)) ELSE 0

\* _group_key: the match of ^(\d+)- at the start of the name, or None.
GroupKey(name) ==
    LET k == LeadingDigits(name)
    IN  IF k >= 1 /\ Len(name) > k /\ name[k + 1] = "-"
        THEN SubSeq(name, 1, k)
        ELSE None

\* sorted(entities, key=path.name) over the files of one directory.
RECURSIVE SortByName(_)
SortByName(S) ==
    IF S = {} THEN <<>>
    ELSE LET m == CHOOSE x \in S : \A y \in S \ {x} : StrLess(x.name, y.name)
         IN  <<m>> \o SortByName(S \ {m})

\* (path.name, str(path.parent)) < (path.name, str(path.parent)).
PhaseKeyLess(x, y) ==
    \/ StrLess(x.name, y.name)
    \/ x.name = y.name /\ StrLess(x.state, y.state)

RECURSIVE SortByNameParent(_)
SortByNameParent(S) ==
    IF S = {} THEN <<>>
    ELSE LET m == CHOOSE x \in S : \A y \in S \ {x} : PhaseKeyLess(x, y)
         IN  <<m>> \o SortByNameParent(S \ {m})

\* faulty variant: the listing of a directory in descending order of name
ListEntitiesDescending(files, p, s) ==
    LET sorted == SortByName({f \in files : f.phase = p /\ f.state = s})
    IN  [i \in 1..Len(sorted) |-> sorted[Len(sorted) + 1 - i]]

\* EntityStore._list_entities / list_transition_entities
ListEntities(files, p, s) ==
    SortByName({f \in files : f.phase = p /\ f.state = s})

\* faulty variant: the listing of a phase takes in the failure bucket
ListPhaseEntitiesWithFailed(files, phase) ==
    SortByNameParent({f \in files : f.phase = phase.name})

\* EntityStore.list_phase_entities: the user states only, never _failed.
ListPhaseEntities(files, phase) ==
    SortByNameParent({f \in files : /\ f.phase = phase.name
                                    /\ \E i \in 1..Len(phase.states) : phase.states[i] = f.state})

\* EntityStore.group_entities: one forward scan with a pending group.
RECURSIVE GroupScan(_, _, _, _)
GroupScan(entities, groups, pending, pending_key) ==
    IF entities = <<>>
    THEN IF pending # <<>>
         THEN Append(groups, [entities |-> pending, key |-> pending_key])
         ELSE groups
    ELSE LET entity == Head(entities)
             key == GroupKey(entity.name)
         IN  IF pending = <<>>
             THEN GroupScan(Tail(entities), groups, <<entity>>, key)
             ELSE IF key # None /\ key = pending_key
             THEN GroupScan(Tail(entities), groups, Append(pending, entity), pending_key)
             ELSE GroupScan(Tail(entities),
                            Append(groups, [entities |-> pending, key |-> pending_key]),
                            <<entity>>, key)

\* faulty variant: the whole listing is one group
GroupEntitiesTogether(entities) ==
    IF entities = <<>> THEN <<>>
    ELSE <<[entities |-> entities, key |-> GroupKey(Head(entities).name)]>>

GroupEntities(entities) == GroupScan(entities, <<>>, <<>>, None)

\* faulty variant: no group is concurrent
ConcurrentNever(group) == FALSE

\* Group.concurrent
Concurrent(group) == group.key # None /\ Len(group.entities) > 1

\* ------------------------------------------------------------ configuration
\* A shell command is modelled by what running it does: its exit status
\* ("zero", "nonzero", "any": it may differ from one attempt to the next, or
\* "second": the hook of test_init_hook_retries_then_succeeds, which leaves
\* a marker file and exits 1 when the marker is not there yet, and exits 0
\* when it is)
\* and its effect on the state directories:
\*   "none"       no effect;
\*   "rm_input"   removes $INPUT_ENTITY (the hook consumes its input);
\*   "rm_others"  removes every other file of $INPUT_ENTITY's directory;
\*   "cp"         copies $INPUT_ENTITY into the directory `target`.
Cmd(exit, effect, target) == [exit |-> exit, effect |-> effect, target |-> target]
NoCmd == Cmd("none", "none", None)
CmdTrue == Cmd("zero", "none", None)
CmdFalse == Cmd("nonzero", "none", None)
CmdFlaky == Cmd("any", "none", None)
CmdSecond == Cmd("second", "none", None)

\* models.HookConfig; stdin is "none" (no template), "ok" (renders), "bad"
\* (never renders: an undefined reference) or "file" (reads a file: a render
\* may fail or succeed from one attempt to the next).
HookConfig(cmd, stdin) == [cmd |-> cmd, stdin |-> stdin]
NoHook == HookConfig(NoCmd, "none")

\* models.TransitionConfig
TransitionConfig(source, destination, cmd, stdin, jump) ==
    [source |-> source, destination |-> destination, cmd |-> cmd,
     stdin |-> stdin, jump |-> jump]

\* models.PhaseConfig
PhaseConfig(name, states, transitions, completions, mode) ==
    [name |-> name, states |-> states, transitions |-> transitions,
     completions |-> completions, mode |-> mode]

\* models.WorkflowConfig (the environment mapping is not part of the engine)
WorkflowConfig(phases, retries, init) ==
    [phases |-> phases, retries |-> retries, init |-> init]

\* WorkflowConfig.phase_order
PhaseOrder(config) == [i \in 1..Len(config.phases) |-> config.phases[i].name]

Range(seq) == {seq[i] : i \in 1..Len(seq)}

\* WorkflowEngine._phases[name]
PhaseNamed(config, name) ==
    config.phases[CHOOSE i \in 1..Len(config.phases) : config.phases[i].name = name]

\* phase_order.index(name), counted from 0 as in the code
IndexOf(config, name) ==
    (CHOOSE i \in 1..Len(config.phases) : config.phases[i].name = name) - 1

\* config_loader._validate_workflow, with the checks of _parse_states and
\* _parse_transitions that the engine relies on.
ValidWorkflow(config) ==
    /\ Len(config.phases) >= 1
    /\ config.retries >= 0
    /\ \A i, j \in 1..Len(config.phases) :
          config.phases[i].name = config.phases[j].name => i = j
    /\ \A i \in 1..Len(config.phases) :
          LET phase == config.phases[i]
          IN  /\ phase.name # None
              /\ Len(phase.states) >= 1
              /\ \A k \in 1..Len(phase.states) :
                    /\ phase.states[k] # None
                    /\ phase.states[k] # FAILED_STATE
                    /\ \A l \in 1..Len(phase.states) :
                          phase.states[k] = phase.states[l] => k = l
              /\ phase.mode \in {PHASE_MODE_TRANSITIONS, PHASE_MODE_ENTITY}
              /\ \A k \in 1..Len(phase.transitions) :
                    LET transition == phase.transitions[k]
                    IN  /\ transition.source \in Range(phase.states)
                        /\ transition.destination \in Range(phase.states)
                        /\ transition.cmd = NoCmd => transition.stdin = "none"
                        /\ transition.jump # None =>
                              transition.jump \in Range(PhaseOrder(config))

\* ------------------------------------------------------ the workflows run
tasks_ == <<"t">>
subtasks_ == <<"s">>
audits_ == <<"u">>
new == <<"n">>
mid == <<"m">>
done == <<"d">>

NameA == <<"a">>
NameB == <<"b">>
Name01a == <<"0", "1", "-", "a">>
Name01b == <<"0", "1", "-", "b">>
Name02a == <<"0", "2", "-", "a">>

Plain(source, destination) == TransitionConfig(source, destination, NoCmd, "none", None)
Hooked(source, destination, cmd) == TransitionConfig(source, destination, cmd, "none", None)
Jumping(source, destination, cmd, jump) ==
    TransitionConfig(source, destination, cmd, "none", jump)

\* tests/test_main.py: test_run_simple_transition_moves_entities_and_stops
WfSimple ==
    WorkflowConfig(
        <<PhaseConfig(tasks_, <<new, done>>, <<Plain(new, done)>>, <<>>,
                      PHASE_MODE_TRANSITIONS)>>,
        0, NoHook)

\* tests/test_main.py: test_transition_mode_processes_transitions_in_batches,
\* with a first hook that may fail
WfChainBatch ==
    WorkflowConfig(
        <<PhaseConfig(tasks_, <<new, mid, done>>,
                      <<Hooked(new, mid, CmdFlaky), Hooked(mid, done, CmdTrue)>>, <<>>,
                      PHASE_MODE_TRANSITIONS)>>,
        1, NoHook)

\* tests/test_main.py: test_entity_mode_processes_each_entity_until_rest
WfChainEntity ==
    WorkflowConfig(
        <<PhaseConfig(tasks_, <<new, mid, done>>,
                      <<Hooked(new, mid, CmdFlaky), Hooked(mid, done, CmdTrue)>>, <<>>,
                      PHASE_MODE_ENTITY)>>,
        1, NoHook)

\* tests/test_main.py: test_jump_runs_target_phase_to_fixpoint
WfJumpBatch ==
    WorkflowConfig(
        <<PhaseConfig(tasks_, <<new, done>>,
                      <<Jumping(new, done, Cmd("zero", "cp", <<subtasks_, new>>), subtasks_)>>,
                      <<>>, PHASE_MODE_TRANSITIONS),
          PhaseConfig(subtasks_, <<new, done>>, <<Plain(new, done)>>, <<>>,
                      PHASE_MODE_TRANSITIONS)>>,
        0, NoHook)

\* tests/test_main.py: test_entity_mode_jump_runs_target_phase_to_fixpoint,
\* with the transitions declared against the flow and a jump on each
WfJumpEntity ==
    WorkflowConfig(
        <<PhaseConfig(tasks_, <<new, mid, done>>,
                      <<Jumping(mid, done, NoCmd, subtasks_),
                        Jumping(new, mid, Cmd("zero", "cp", <<subtasks_, new>>), subtasks_)>>,
                      <<>>, PHASE_MODE_ENTITY),
          PhaseConfig(subtasks_, <<new, done>>, <<Hooked(new, done, CmdFalse)>>, <<>>,
                      PHASE_MODE_TRANSITIONS)>>,
        0, NoHook)

\* the same chain declared against the flow, in Batch mode, with a
\* completion hook in the phase jumped to
WfJumpReverse ==
    WorkflowConfig(
        <<PhaseConfig(tasks_, <<new, mid, done>>,
                      <<Jumping(mid, done, NoCmd, subtasks_),
                        Jumping(new, mid, NoCmd, subtasks_)>>,
                      <<>>, PHASE_MODE_TRANSITIONS),
          PhaseConfig(subtasks_, <<new>>, <<>>, <<HookConfig(CmdFlaky, "none")>>,
                      PHASE_MODE_TRANSITIONS)>>,
        0, NoHook)

\* tests/test_main.py: test_resume_from_state_file_starts_at_saved_phase,
\* with a third phase, a failing hook in the first and a jump from the
\* second back to the first
WfThree ==
    WorkflowConfig(
        <<PhaseConfig(tasks_, <<new, done>>, <<Hooked(new, done, CmdFalse)>>, <<>>,
                      PHASE_MODE_TRANSITIONS),
          PhaseConfig(subtasks_, <<new, done>>, <<Jumping(new, done, NoCmd, tasks_)>>, <<>>,
                      PHASE_MODE_ENTITY),
          PhaseConfig(audits_, <<new, done>>, <<Plain(new, done)>>, <<>>,
                      PHASE_MODE_TRANSITIONS)>>,
        0, NoHook)

\* transitions that form a cycle: accepted by validation
WfCycle ==
    WorkflowConfig(
        <<PhaseConfig(tasks_, <<new, done>>, <<Plain(new, done), Plain(done, new)>>, <<>>,
                      PHASE_MODE_TRANSITIONS)>>,
        0, NoHook)

\* tests/test_main.py: test_grouped_numeric_prefix_entities_run_concurrently,
\* with a hook that consumes the other files of its directory
WfGroupRm ==
    WorkflowConfig(
        <<PhaseConfig(tasks_, <<new, done>>,
                      <<Hooked(new, done, Cmd("any", "rm_others", None))>>, <<>>,
                      PHASE_MODE_TRANSITIONS)>>,
        0, NoHook)

\* a hook that consumes its own input, in PerEntity mode
WfConsume ==
    WorkflowConfig(
        <<PhaseConfig(tasks_, <<new, done>>,
                      <<Hooked(new, done, Cmd("any", "rm_input", None))>>, <<>>,
                      PHASE_MODE_ENTITY)>>,
        0, NoHook)

\* tests/test_main.py: test_init_hook_retries_then_succeeds and
\* test_completion_hook_retries_then_succeeds
WfHooks ==
    WorkflowConfig(
        <<PhaseConfig(tasks_, <<new, done>>, <<Hooked(new, done, CmdTrue)>>,
                      <<HookConfig(CmdTrue, "file"), HookConfig(CmdFlaky, "none")>>,
                      PHASE_MODE_TRANSITIONS)>>,
        1, HookConfig(CmdFlaky, "ok"))

\* tests/test_main.py: test_init_hook_retries_then_succeeds
WfRetry ==
    WorkflowConfig(
        <<PhaseConfig(tasks_, <<new>>, <<>>, <<>>, PHASE_MODE_TRANSITIONS)>>,
        1, HookConfig(CmdSecond, "none"))

\* tests/test_main.py: test_stdin_template_cannot_access_external_environment
WfStdin ==
    WorkflowConfig(
        <<PhaseConfig(tasks_, <<new, done>>,
                      <<TransitionConfig(new, done, CmdTrue, "bad", None)>>, <<>>,
                      PHASE_MODE_TRANSITIONS)>>,
        0, NoHook)

\* jumps that nest (tasks -> subtasks -> tasks), a self-jump, and two
\* transitions with the same source
WfNested ==
    WorkflowConfig(
        <<PhaseConfig(tasks_, <<new, mid, done>>,
                      <<Jumping(new, mid, NoCmd, subtasks_), Jumping(mid, done, NoCmd, tasks_),
                        Plain(new, done)>>,
                      <<>>, PHASE_MODE_TRANSITIONS),
          PhaseConfig(subtasks_, <<new, done>>, <<Jumping(new, done, NoCmd, tasks_)>>, <<>>,
                      PHASE_MODE_ENTITY)>>,
        0, NoHook)

\* tests/test_main.py: test_init_hook_runs_once_before_any_phase, with two
\* phases and a completion hook, all hooks succeeding
WfPipeline ==
    WorkflowConfig(
        <<PhaseConfig(tasks_, <<new, done>>, <<Hooked(new, done, CmdTrue)>>,
                      <<HookConfig(CmdTrue, "ok")>>, PHASE_MODE_ENTITY),
          PhaseConfig(subtasks_, <<new, mid, done>>,
                      <<Plain(new, mid), Plain(mid, done)>>, <<>>,
                      PHASE_MODE_TRANSITIONS)>>,
        0, HookConfig(CmdTrue, "none"))

\* a PerEntity phase whose first transition jumps to the phase itself, with
\* a second transition declared for the same source
WfSelfJump ==
    WorkflowConfig(
        <<PhaseConfig(tasks_, <<new, mid, done>>,
                      <<Jumping(new, mid, NoCmd, tasks_), Plain(mid, done), Plain(new, done)>>,
                      <<HookConfig(CmdTrue, "none")>>, PHASE_MODE_ENTITY)>>,
        0, NoHook)

\* tests/test_main.py: test_grouped_numeric_prefix_entities_run_concurrently,
\* with a second phase in PerEntity mode over entities of the same prefix,
\* which jumps back to the first
WfGroups ==
    WorkflowConfig(
        <<PhaseConfig(tasks_, <<new, done>>, <<Hooked(new, done, CmdTrue)>>, <<>>,
                      PHASE_MODE_TRANSITIONS),
          PhaseConfig(subtasks_, <<new, done>>,
                      <<Jumping(new, done, CmdTrue, tasks_)>>, <<>>,
                      PHASE_MODE_ENTITY)>>,
        0, NoHook)

\* a Batch phase whose jump transition has a hook that may fail and that
\* consumes the other files of its directory, and a completion hook in the
\* phase jumped to
WfJumpRm ==
    WorkflowConfig(
        <<PhaseConfig(tasks_, <<new, done>>,
                      <<Jumping(new, done, Cmd("any", "rm_others", None), subtasks_)>>,
                      <<>>, PHASE_MODE_TRANSITIONS),
          PhaseConfig(subtasks_, <<new>>, <<>>, <<HookConfig(CmdTrue, "none")>>,
                      PHASE_MODE_TRANSITIONS)>>,
        0, NoHook)

\* A scenario: a workflow and the files that may be present before the run.
Scenario(config, files) == [config |-> config, files |-> files]

Scenarios ==
    { Scenario(WfSimple, {Path(tasks_, new, NameA), Path(tasks_, new, NameB),
                          Path(tasks_, done, NameA), Path(tasks_, FAILED_STATE, NameA)}),
      Scenario(WfChainBatch, {Path(tasks_, new, NameA), Path(tasks_, new, NameB),
                              Path(tasks_, mid, NameA)}),
      Scenario(WfChainEntity, {Path(tasks_, new, NameA), Path(tasks_, new, NameB),
                               Path(tasks_, mid, NameA)}),
      Scenario(WfJumpBatch, {Path(tasks_, new, NameA), Path(tasks_, new, NameB),
                             Path(subtasks_, new, NameB)}),
      Scenario(WfJumpEntity, {Path(tasks_, new, NameA), Path(tasks_, mid, NameB),
                              Path(subtasks_, new, NameB)}),
      Scenario(WfJumpReverse, {Path(tasks_, new, NameA), Path(tasks_, new, NameB)}),
      Scenario(WfThree, {Path(tasks_, new, NameA), Path(subtasks_, new, NameA),
                         Path(audits_, new, NameA)}),
      Scenario(WfCycle, {Path(tasks_, new, NameA)}),
      Scenario(WfGroupRm, {Path(tasks_, new, Name01a), Path(tasks_, new, Name01b),
                           Path(tasks_, new, NameA)}),
      Scenario(WfConsume, {Path(tasks_, new, NameA), Path(tasks_, new, Name01a)}),
      Scenario(WfHooks, {Path(tasks_, new, NameA)}),
      Scenario(WfNested, {Path(tasks_, new, NameA), Path(subtasks_, new, NameA)}),
      Scenario(WfPipeline, {Path(tasks_, new, NameA), Path(subtasks_, new, NameA),
                            Path(subtasks_, mid, NameB)}),
      Scenario(WfSelfJump, {Path(tasks_, new, NameA), Path(tasks_, new, NameB)}),
      Scenario(WfRetry, {Path(tasks_, new, NameA)}),
      Scenario(WfStdin, {Path(tasks_, new, NameA)}),
      Scenario(WfJumpRm, {Path(tasks_, new, NameA), Path(tasks_, new, NameB)}),
      Scenario(WfGroups, {Path(tasks_, new, Name01a), Path(tasks_, new, Name01b),
                          Path(tasks_, new, NameA), Path(subtasks_, new, Name01a),
                          Path(subtasks_, new, Name01b)}) }

\* cli.parse_args: --retries is absent (NoOverride) or a non-negative integer.
NoOverride == -1

\* app.run: the CLI override when given, otherwise the workflow's value.
EffectiveRetries(retries_override, config) ==
    IF retries_override # NoOverride THEN retries_override ELSE config.retries

\* -------------------------------------------------------------------- state
VARIABLES
    cfg,              \* the WorkflowConfig of the run
    retries,          \* HookRunnerConfig.retries
    fs,               \* the regular files under the state directories
    dirs,             \* the state directories that exist, as <<phase, state>>
    stateFile,        \* current_phase in the runtime state file, None if absent
    pc,               \* where WorkflowEngine.run is
    current_index,    \* WorkflowEngine.run: current_index
    wrapped_to_first, \* WorkflowEngine.run: wrapped_to_first
    moved,            \* WorkflowEngine.run: moved, the result of run_phase
    stack,            \* the run_phase calls in progress, innermost last
    tasks,            \* the _process_entity / HookRunner.run coroutines awaited
    hist,             \* observation only: what the run did so far
    call              \* a call of a function outside a run: argument and result

engine == <<cfg, retries, fs, dirs, stateFile, pc, current_index, wrapped_to_first,
            moved, stack, tasks, hist>>
vars == <<engine, call>>

\* no function is being called
NoCall == [fn |-> "none", arg |-> <<>>, returned |-> FALSE, result |-> <<>>]

\* faulty variant: the failure directories are left out
PhaseDirsWithoutFailed(config) ==
    UNION { {<<config.phases[i].name, config.phases[i].states[k]>> :
                k \in 1..Len(config.phases[i].states)} :
            i \in 1..Len(config.phases) }

\* EntityStore._build_phase_dirs
PhaseDirs(config) ==
    UNION { {<<config.phases[i].name, config.phases[i].states[k]>> :
                k \in 1..Len(config.phases[i].states)}
            \cup {<<config.phases[i].name, FAILED_STATE>>} :
            i \in 1..Len(config.phases) }

\* One call of PhaseProcessor.run_phase: the locals of _run, _apply_transition
\* and _flow_entity_to_rest, and the index of _run_completions.
Frame(phase_name) ==
    [phase |-> phase_name, pc |-> "pass", moved_total |-> 0, moved_this_pass |-> 0,
     ti |-> 0, groups |-> <<>>, moved |-> 0, jumps |-> <<>>, ents |-> <<>>,
     current |-> NoPath, ci |-> 0]

\* One coroutine: _process_entity for an entity ("entity") or HookRunner.run
\* for an init or completion hook ("hook").
Task(kind, entity, hook, conc) ==
    [kind |-> kind, entity |-> entity, hook |-> hook, conc |-> conc, pc |-> "start",
     attempt |-> 0, spawned |-> 0, success |-> FALSE, moved |-> FALSE,
     jump |-> None]

Top == stack[Len(stack)]
SetTop(frame) == [stack EXCEPT ![Len(stack)] = frame]
TopPhase == PhaseNamed(cfg, Top.phase)
Running(frame_pc) == pc = "running" /\ stack # <<>> /\ Top.pc = frame_pc

\* _process_entity: the hook it runs for a transition
TransitionHook(transition) == HookConfig(transition.cmd, "none")

\* faulty variant: the last declared transition from the state is taken
FindLastTransitionFromState(phase, state_name) ==
    IF \E k \in 1..Len(phase.transitions) : phase.transitions[k].source = state_name
    THEN CHOOSE k \in 1..Len(phase.transitions) :
            /\ phase.transitions[k].source = state_name
            /\ \A l \in (k + 1)..Len(phase.transitions) :
                   phase.transitions[l].source # state_name
    ELSE 0

\* _find_transition_from_state: index of the first declared transition whose
\* source is the state, 0 when there is none
FindTransitionFromState(phase, state_name) ==
    IF \E k \in 1..Len(phase.transitions) : phase.transitions[k].source = state_name
    THEN CHOOSE k \in 1..Len(phase.transitions) :
            /\ phase.transitions[k].source = state_name
            /\ \A l \in 1..(k - 1) : phase.transitions[l].source # state_name
    ELSE 0

\* faulty variant: the entity is copied and stays in its source directory
MoveToStateCopying(files, phase_name, state_name, entity) ==
    files \cup {Path(phase_name, state_name, entity.name)}

\* shutil.move(entity, dir_for(phase, state) / entity.name): a rename, which
\* replaces a file of the same name in the destination directory
MoveToState(files, phase_name, state_name, entity) ==
    (files \ {entity}) \cup {Path(phase_name, state_name, entity.name)}

\* faulty variant: a failed hook no longer routes the entity to _failed
TargetAlwaysDestination(success, transition) == transition.destination

\* _process_entity: where the entity goes after its hook
TargetState(success, transition) ==
    IF success THEN transition.destination ELSE FAILED_STATE

\* _process_entity: the TransitionResult after the move
ResultJump(success, transition) == IF success THEN transition.jump ELSE None

\* What running a command does to the state directories.
Effect(files, cmd, input) ==
    CASE cmd.effect = "none" -> files
      [] cmd.effect = "rm_input" -> files \ {input}
      [] cmd.effect = "rm_others" ->
            {f \in files : ~(f.phase = input.phase /\ f.state = input.state
                             /\ f.name # input.name)}
      [] cmd.effect = "cp" ->
            IF input \in files
            THEN files \cup {Path(cmd.target[1], cmd.target[2], input.name)}
            ELSE files

\* The exit statuses a command can end with: TRUE is exit status 0.
ExitsZero(cmd) ==
    CASE cmd.exit = "zero" -> {TRUE}
      [] cmd.exit = "nonzero" -> {FALSE}
      [] cmd.exit = "any" -> {TRUE, FALSE}

\* The exit statuses of one attempt.  The marker of a "second" command is
\* there from the first attempt on, and a killed process leaves it behind.
ExitStatus(cmd, attempt, kills) ==
    IF cmd.exit = "second" THEN {attempt >= 2 \/ kills > 0} ELSE ExitsZero(cmd)

\* faulty variant: the first attempt is not counted
AttemptsNoFirst(r) == r

\* Whether a render of the stdin template can succeed.
Renders(stdin) ==
    CASE stdin = "none" -> {TRUE}
      [] stdin = "ok" -> {TRUE}
      [] stdin = "bad" -> {FALSE}
      [] stdin = "file" -> {TRUE, FALSE}

\* HookRunner.run: attempts = self._retries + 1
Attempts(r) == r + 1

\* faulty variant: the pass loop tests the total instead of the pass's own count
FixpointOnTotal(moved_this_pass, moved_total) == moved_total = 0

\* faulty variant: the pass loop returns after its first pass
FixpointAfterOnePass(moved_this_pass, moved_total) == TRUE

\* PhaseProcessor._run: `if moved_this_pass == 0: return moved_total`
FixpointReached(moved_this_pass, moved_total) == moved_this_pass = 0

\* faulty variant: the exit test does not look at which phase has just run
StableAtAnyPhase(wrapped, phase_name, first_phase, n_moved) ==
    wrapped /\ n_moved = 0

\* faulty variant: the exit test forgets that the index must have wrapped
StableWithoutWrap(wrapped, phase_name, first_phase, n_moved) ==
    phase_name = first_phase /\ n_moved = 0

\* WorkflowEngine.run: the exit test after a phase has run
StableFixpoint(wrapped, phase_name, first_phase, n_moved) ==
    wrapped /\ phase_name = first_phase /\ n_moved = 0

\* faulty variant: the loaded current_phase is ignored
StartIndexFirst(config, current_phase) == 0

\* WorkflowEngine.run: the index to start at, from the loaded current_phase
StartIndex(config, current_phase) ==
    IF current_phase = None THEN 0 ELSE IndexOf(config, current_phase)

\* faulty variant: the jump handler does not save the source phase when it returns
SavedOnReturnStale(target_phase, source_phase) == target_phase

\* WorkflowEngine._run_jump: what is persisted when the jump returns
SavedOnReturn(target_phase, source_phase) == source_phase

\* ------------------------------------------------------------- observation
Note(field, value) == [hist EXCEPT ![field] = value]
NoteRun(h, phase_name, via) ==
    [h EXCEPT !.runs = Append(@, [phase |-> phase_name, via |-> via])]
\* every phase must reach a fixpoint again after an entity has been moved
NoteMove(h, success, depth) ==
    [h EXCEPT !.settled = {}, !.moves = @ + 1,
              !.mainMoved = IF success /\ depth = 1 THEN @ + 1 ELSE @]

\* the entities in the order in which _process_entity took them up
NoteProcessed(h, entity) == [h EXCEPT !.trace = Append(@, entity)]

\* --------------------------------------------------------------------- Init
Init ==
    /\ \E sc \in Scenarios :
          /\ cfg = sc.config
          /\ ValidWorkflow(cfg)
          /\ fs \in {S \in SUBSET sc.files : Cardinality(S) <= MaxFiles}
    /\ stateFile \in {None} \cup Range(PhaseOrder(cfg)) \cup {<<"x">>}
    /\ \E retries_override \in {NoOverride} \cup 0..MaxRetries :
          /\ retries = EffectiveRetries(retries_override, cfg)
          /\ hist = [fs0 |-> fs, stateFile0 |-> stateFile, passes |-> 0,
                     runs |-> <<>>, wraps |-> 0, moves |-> 0, mainMoved |-> 0,
                     settled |-> {}, second |-> FALSE, ref |-> {}, kills |-> 0,
                     trace |-> <<>>, override |-> retries_override,
                     jumpMoves |-> 0]
    /\ dirs = {<<f.phase, f.state>> : f \in fs}
    /\ pc = "start"
    /\ current_index = 0
    /\ wrapped_to_first = FALSE
    /\ moved = 0
    /\ stack = <<>>
    /\ tasks = <<>>
    /\ call = NoCall

\* ------------------------------------------------------ WorkflowEngine.run
\* ensure_layout(), then _run_init() up to the init hook's first attempt
Startup ==
    /\ pc = "start"
    /\ dirs' = dirs \cup PhaseDirs(cfg)
    /\ IF cfg.init = NoHook
       THEN pc' = "load" /\ tasks' = <<>>
       ELSE pc' = "init" /\ tasks' = <<Task("hook", NoPath, cfg.init, FALSE)>>
    /\ UNCHANGED <<call, cfg, retries, fs, stateFile, current_index, wrapped_to_first,
                   moved, stack, hist>>

\* faulty variant: the result of the init hook is not looked at
InitDoneIgnoringFailure ==
    /\ pc = "init"
    /\ tasks[1].pc = "done"
    /\ tasks' = <<>>
    /\ pc' = "load"
    /\ UNCHANGED <<call, cfg, retries, fs, dirs, stateFile, current_index, wrapped_to_first,
                   moved, stack, hist>>

\* _run_init: the init hook has returned
InitDone ==
    /\ pc = "init"
    /\ tasks[1].pc = "done"
    /\ tasks' = <<>>
    /\ pc' = IF tasks[1].success THEN "load" ELSE "failed"
    /\ UNCHANGED <<call, cfg, retries, fs, dirs, stateFile, current_index, wrapped_to_first,
                   moved, stack, hist>>

\* faulty variant: an unknown phase in the state file is taken as no phase
LoadStateUnknownAsFirst ==
    /\ pc = "load"
    /\ pc' = "select"
    /\ current_index' = IF stateFile \in Range(PhaseOrder(cfg))
                        THEN StartIndex(cfg, stateFile) ELSE 0
    /\ stateFile' = IF stateFile \in Range(PhaseOrder(cfg))
                    THEN stateFile ELSE PhaseOrder(cfg)[1]
    /\ wrapped_to_first' = FALSE
    /\ UNCHANGED <<call, cfg, retries, fs, dirs, moved, stack, tasks, hist>>

\* load_current_phase() and the choice of the start index
LoadState ==
    /\ pc = "load"
    /\ IF stateFile # None /\ stateFile \notin Range(PhaseOrder(cfg))
       THEN /\ pc' = "failed"
            /\ UNCHANGED <<stateFile, current_index>>
       ELSE /\ pc' = "select"
            /\ current_index' = StartIndex(cfg, stateFile)
            /\ stateFile' = IF stateFile = None THEN PhaseOrder(cfg)[1] ELSE stateFile
    /\ wrapped_to_first' = FALSE
    /\ UNCHANGED <<call, cfg, retries, fs, dirs, moved, stack, tasks, hist>>

\* top of the main loop: save_current_phase(phase_name), then run_phase()
SelectPhase ==
    /\ pc = "select"
    /\ LET phase_name == PhaseOrder(cfg)[current_index + 1]
       IN  /\ stateFile' = phase_name
           /\ stack' = <<Frame(phase_name)>>
           /\ hist' = NoteRun([hist EXCEPT !.mainMoved = 0], phase_name, "main")
    /\ pc' = "running"
    /\ UNCHANGED <<call, cfg, retries, fs, dirs, current_index, wrapped_to_first, moved, tasks>>

\* faulty variant: the main loop goes on with the phase after the one that
\* is persisted, which a jump has written
AfterPhaseFromStateFile ==
    /\ pc = "check"
    /\ LET phase_order == PhaseOrder(cfg)
           last_run == hist.runs[Len(hist.runs)].phase
           next_index == (IndexOf(cfg, last_run) + 1) % Len(phase_order)
       IN  IF StableFixpoint(wrapped_to_first, phase_order[current_index + 1],
                             phase_order[1], moved)
           THEN /\ pc' = "done"
                /\ UNCHANGED <<current_index, wrapped_to_first, hist>>
           ELSE /\ pc' = "select"
                /\ current_index' = next_index
                /\ wrapped_to_first' = (wrapped_to_first \/ next_index = 0)
                /\ hist' = IF next_index = 0 THEN Note("wraps", hist.wraps + 1) ELSE hist
    /\ UNCHANGED <<call, cfg, retries, fs, dirs, stateFile, moved, stack, tasks>>

\* after run_phase(): exit at the stable fixpoint, or advance the index
AfterPhase ==
    /\ pc = "check"
    /\ LET phase_order == PhaseOrder(cfg)
           next_index == (current_index + 1) % Len(phase_order)
       IN  IF StableFixpoint(wrapped_to_first, phase_order[current_index + 1],
                             phase_order[1], moved)
           THEN /\ pc' = "done"
                /\ UNCHANGED <<current_index, wrapped_to_first, hist>>
           ELSE /\ pc' = "select"
                /\ current_index' = next_index
                /\ wrapped_to_first' = (wrapped_to_first \/ next_index = 0)
                /\ hist' = IF next_index = 0 THEN Note("wraps", hist.wraps + 1) ELSE hist
    /\ UNCHANGED <<call, cfg, retries, fs, dirs, stateFile, moved, stack, tasks>>

\* faulty variant: a jump to the caller's own phase is run like any other
RunJumpReentering(target_phase, caller) ==
    /\ stateFile' = target_phase
    /\ stack' = Append(SetTop(caller), Frame(target_phase))
    /\ hist' = NoteRun(hist, target_phase, "jump")

\* _run_jump(target_phase, source_phase), called by the frame `caller`
RunJump(target_phase, caller) ==
    IF target_phase = caller.phase
    THEN /\ stack' = SetTop(caller)
         /\ UNCHANGED <<stateFile, hist>>
    ELSE /\ stateFile' = target_phase
         /\ stack' = Append(SetTop(caller), Frame(target_phase))
         /\ hist' = NoteRun(hist, target_phase, "jump")

\* ------------------------------------- AllAtOncePhaseProcessor (Batch mode)
\* _run: top of `while True`
BatchBeginPass ==
    /\ Running("pass")
    /\ TopPhase.mode = PHASE_MODE_TRANSITIONS
    /\ hist.passes < MaxPasses
    /\ stack' = SetTop([Top EXCEPT !.moved_this_pass = 0, !.ti = 1, !.pc = "trans"])
    /\ hist' = Note("passes", hist.passes + 1)
    /\ UNCHANGED <<call, cfg, retries, fs, dirs, stateFile, pc, current_index,
                   wrapped_to_first, moved, tasks>>

\* _apply_transition: list the source directory and group the listing
BatchApplyTransition ==
    /\ Running("trans")
    /\ Top.ti <= Len(TopPhase.transitions)
    /\ LET transition == TopPhase.transitions[Top.ti]
           entities == ListEntities(fs, Top.phase, transition.source)
       IN  stack' = SetTop(IF entities = <<>>
                           THEN [Top EXCEPT !.ti = @ + 1]
                           ELSE [Top EXCEPT !.moved = 0, !.jumps = <<>>,
                                            !.groups = GroupEntities(entities),
                                            !.pc = "group"])
    /\ UNCHANGED <<call, cfg, retries, fs, dirs, stateFile, pc, current_index,
                   wrapped_to_first, moved, tasks, hist>>

\* _process_group: one coroutine per entity of the next group
BatchStartGroup ==
    /\ Running("group")
    /\ Top.groups # <<>>
    /\ LET group == Head(Top.groups)
           transition == TopPhase.transitions[Top.ti]
       IN  tasks' = [i \in 1..Len(group.entities) |->
                        Task("entity", group.entities[i], TransitionHook(transition),
                             Concurrent(group))]
    /\ stack' = SetTop([Top EXCEPT !.pc = "gather"])
    /\ UNCHANGED <<call, cfg, retries, fs, dirs, stateFile, pc, current_index,
                   wrapped_to_first, moved, hist>>

\* faulty variant: the jump targets of the results are dropped
JumpsDropped(results) == <<>>

\* the jump targets of the moved results, in the order of the results
RECURSIVE JumpsOf(_)
JumpsOf(results) ==
    IF results = <<>> THEN <<>>
    ELSE (IF Head(results).moved /\ Head(results).jump # None
          THEN <<Head(results).jump>> ELSE <<>>) \o JumpsOf(Tail(results))

MovedCount(results) == Cardinality({i \in 1..Len(results) : results[i].moved})

\* _apply_transition: the results of a group, once all its coroutines returned
BatchGroupDone ==
    /\ Running("gather")
    /\ \A i \in 1..Len(tasks) : tasks[i].pc = "done"
    /\ stack' = SetTop([Top EXCEPT !.moved = @ + MovedCount(tasks),
                                   !.jumps = @ \o JumpsOf(tasks),
                                   !.groups = Tail(@),
                                   !.pc = "group"])
    /\ tasks' = <<>>
    /\ UNCHANGED <<call, cfg, retries, fs, dirs, stateFile, pc, current_index,
                   wrapped_to_first, moved, hist>>

\* _run: _apply_transition has returned (moved, jumps)
BatchTransitionDone ==
    /\ Running("group")
    /\ Top.groups = <<>>
    /\ stack' = SetTop([Top EXCEPT !.moved_this_pass = @ + Top.moved,
                                   !.moved_total = @ + Top.moved,
                                   !.pc = "jumps"])
    /\ UNCHANGED <<call, cfg, retries, fs, dirs, stateFile, pc, current_index,
                   wrapped_to_first, moved, tasks, hist>>

\* _run: `for jump_name in jumps: await self._jump_handler(...)`
BatchJump ==
    /\ Running("jumps")
    /\ Top.jumps # <<>>
    /\ RunJump(Head(Top.jumps), [Top EXCEPT !.jumps = Tail(@)])
    /\ UNCHANGED <<call, cfg, retries, fs, dirs, pc, current_index, wrapped_to_first,
                   moved, tasks>>

\* _run: the jumps of the transition are handled; next transition
BatchJumpsDone ==
    /\ Running("jumps")
    /\ Top.jumps = <<>>
    /\ stack' = SetTop([Top EXCEPT !.ti = @ + 1, !.pc = "trans"])
    /\ UNCHANGED <<call, cfg, retries, fs, dirs, stateFile, pc, current_index,
                   wrapped_to_first, moved, tasks, hist>>

\* _run: end of the pass, `if moved_this_pass == 0: return moved_total`
BatchEndPass ==
    /\ Running("trans")
    /\ Top.ti > Len(TopPhase.transitions)
    /\ stack' = SetTop(IF FixpointReached(Top.moved_this_pass, Top.moved_total)
                       THEN [Top EXCEPT !.pc = "completions", !.ci = 1]
                       ELSE [Top EXCEPT !.pc = "pass"])
    /\ UNCHANGED <<call, cfg, retries, fs, dirs, stateFile, pc, current_index,
                   wrapped_to_first, moved, tasks, hist>>

\* --------------------------------- OneAtATimePhaseProcessor (PerEntity mode)
\* _run: top of `while True`, with the listing of the phase
EntityBeginPass ==
    /\ Running("pass")
    /\ TopPhase.mode = PHASE_MODE_ENTITY
    /\ hist.passes < MaxPasses
    /\ stack' = SetTop([Top EXCEPT !.moved_this_pass = 0,
                                   !.ents = ListPhaseEntities(fs, TopPhase),
                                   !.pc = "next"])
    /\ hist' = Note("passes", hist.passes + 1)
    /\ UNCHANGED <<call, cfg, retries, fs, dirs, stateFile, pc, current_index,
                   wrapped_to_first, moved, tasks>>

\* _flow_entity_to_rest(entity): entry, `if not entity.exists(): return 0`
EntityNext ==
    /\ Running("next")
    /\ Top.ents # <<>>
    /\ LET entity == Head(Top.ents)
       IN  stack' = SetTop(IF entity \notin fs
                           THEN [Top EXCEPT !.ents = Tail(@)]
                           ELSE [Top EXCEPT !.ents = Tail(@), !.moved = 0,
                                            !.current = entity, !.pc = "flow"])
    /\ UNCHANGED <<call, cfg, retries, fs, dirs, stateFile, pc, current_index,
                   wrapped_to_first, moved, tasks, hist>>

\* _flow_entity_to_rest: find the transition of the current state and process
\* the entity under it, or return when there is none
EntityFlow ==
    /\ Running("flow")
    /\ LET k == FindTransitionFromState(TopPhase, Top.current.state)
       IN  IF k = 0
           THEN /\ stack' = SetTop([Top EXCEPT !.moved_this_pass = @ + Top.moved,
                                               !.moved_total = @ + Top.moved,
                                               !.pc = "next"])
                /\ tasks' = <<>>
           ELSE /\ stack' = SetTop([Top EXCEPT !.ti = k, !.pc = "flowing"])
                /\ tasks' = <<Task("entity", Top.current,
                                   TransitionHook(TopPhase.transitions[k]), FALSE)>>
    /\ UNCHANGED <<call, cfg, retries, fs, dirs, stateFile, pc, current_index,
                   wrapped_to_first, moved, hist>>

\* _flow_entity_to_rest: the result of _process_entity
EntityFlowResult ==
    /\ Running("flowing")
    /\ tasks[1].pc = "done"
    /\ tasks' = <<>>
    /\ LET result == tasks[1]
           transition == TopPhase.transitions[Top.ti]
       IN  IF ~result.moved
           THEN /\ stack' = SetTop([Top EXCEPT !.moved_this_pass = @ + Top.moved,
                                               !.moved_total = @ + Top.moved,
                                               !.pc = "next"])
                /\ UNCHANGED <<stateFile, hist>>
           ELSE LET caller == [Top EXCEPT !.moved = @ + 1,
                                          !.current = Path(Top.phase, transition.destination,
                                                           Top.current.name),
                                          !.pc = "flow"]
                IN  IF result.jump # None
                    THEN RunJump(result.jump, caller)
                    ELSE /\ stack' = SetTop(caller)
                         /\ UNCHANGED <<stateFile, hist>>
    /\ UNCHANGED <<call, cfg, retries, fs, dirs, pc, current_index, wrapped_to_first, moved>>

\* _run: end of the pass, `if moved_this_pass == 0: return moved_total`
EntityEndPass ==
    /\ Running("next")
    /\ Top.ents = <<>>
    /\ stack' = SetTop(IF FixpointReached(Top.moved_this_pass, Top.moved_total)
                       THEN [Top EXCEPT !.pc = "completions", !.ci = 1]
                       ELSE [Top EXCEPT !.pc = "pass"])
    /\ UNCHANGED <<call, cfg, retries, fs, dirs, stateFile, pc, current_index,
                   wrapped_to_first, moved, tasks, hist>>

\* ------------------------------------------ PhaseProcessor: completion hooks
\* _run_completions: run the next completion hook
StartCompletion ==
    /\ Running("completions")
    /\ Top.ci <= Len(TopPhase.completions)
    /\ tasks' = <<Task("hook", NoPath, TopPhase.completions[Top.ci], FALSE)>>
    /\ stack' = SetTop([Top EXCEPT !.pc = "completion"])
    /\ UNCHANGED <<call, cfg, retries, fs, dirs, stateFile, pc, current_index,
                   wrapped_to_first, moved, hist>>

\* faulty variant: a failed completion hook is passed over
CompletionDoneIgnoringFailure ==
    /\ Running("completion")
    /\ tasks[1].pc = "done"
    /\ tasks' = <<>>
    /\ stack' = SetTop([Top EXCEPT !.ci = @ + 1, !.pc = "completions"])
    /\ UNCHANGED <<call, cfg, retries, fs, dirs, stateFile, pc, current_index,
                   wrapped_to_first, moved, hist>>

\* faulty variant: the jump handler saves its source phase also when the
\* run of the target raises
CompletionDoneResaving ==
    /\ Running("completion")
    /\ tasks[1].pc = "done"
    /\ tasks' = <<>>
    /\ IF tasks[1].success
       THEN /\ stack' = SetTop([Top EXCEPT !.ci = @ + 1, !.pc = "completions"])
            /\ pc' = pc
            /\ stateFile' = stateFile
       ELSE /\ pc' = "failed"
            /\ stack' = stack
            /\ stateFile' = stack[1].phase
    /\ UNCHANGED <<call, cfg, retries, fs, dirs, current_index, wrapped_to_first,
                   moved, hist>>

\* _run_completions: the hook has returned; a failure raises WorkflowError
CompletionDone ==
    /\ Running("completion")
    /\ tasks[1].pc = "done"
    /\ tasks' = <<>>
    /\ IF tasks[1].success
       THEN /\ stack' = SetTop([Top EXCEPT !.ci = @ + 1, !.pc = "completions"])
            /\ pc' = pc
       ELSE /\ pc' = "failed"
            /\ stack' = stack
    /\ UNCHANGED <<call, cfg, retries, fs, dirs, stateFile, current_index, wrapped_to_first,
                   moved, hist>>

\* run_phase returns moved_total: to the main loop, or to _run_jump, which
\* then saves the source phase
ReturnPhase ==
    /\ Running("completions")
    /\ Top.ci > Len(TopPhase.completions)
    /\ hist' = [hist EXCEPT !.settled = @ \cup {Top.phase}]
    /\ IF Len(stack) = 1
       THEN /\ stack' = <<>>
            /\ moved' = Top.moved_total
            /\ pc' = "check"
            /\ UNCHANGED stateFile
       ELSE /\ stack' = SubSeq(stack, 1, Len(stack) - 1)
            /\ stateFile' = SavedOnReturn(Top.phase, stack[Len(stack) - 1].phase)
            /\ UNCHANGED <<moved, pc>>
    /\ UNCHANGED <<call, cfg, retries, fs, dirs, current_index, wrapped_to_first, tasks>>

\* ------------------------------------- _process_entity and HookRunner.run
Awaiting == pc \in {"init", "running"}

\* where a coroutine goes when HookRunner.run has returned
AfterHook(task, success) ==
    [task EXCEPT !.success = success,
                 !.pc = IF task.kind = "entity" THEN "move" ELSE "done"]

\* a coroutine starts: the members of a concurrent group start in order,
\* the others run one after the other.  _process_entity begins with
\* `if not entity.exists(): return TransitionResult(False, None)`.
TaskStart(i) ==
    /\ Awaiting
    /\ i \in 1..Len(tasks)
    /\ tasks[i].pc = "start"
    /\ \A j \in 1..(i - 1) : IF tasks[i].conc THEN tasks[j].pc # "start"
                                              ELSE tasks[j].pc = "done"
    /\ LET task == tasks[i]
       IN  /\ tasks' = [tasks EXCEPT ![i] =
                IF task.kind = "entity" /\ task.entity \notin fs
                THEN [task EXCEPT !.pc = "done"]
                ELSE IF task.hook.cmd = NoCmd
                THEN [task EXCEPT !.success = TRUE, !.pc = "move"]
                ELSE [task EXCEPT !.attempt = 1, !.pc = "spawn"]]
           /\ hist' = IF task.kind = "entity" /\ task.entity \in fs
                      THEN NoteProcessed(hist, task.entity)
                      ELSE hist
    /\ UNCHANGED <<call, cfg, retries, fs, dirs, stateFile, pc, current_index,
                   wrapped_to_first, moved, stack>>

\* HookRunner.run: one attempt begins: render the stdin payload, then spawn
\* the shell; a render that fails uses the attempt up
HookSpawn(i) ==
    /\ Awaiting
    /\ i \in 1..Len(tasks)
    /\ tasks[i].pc = "spawn"
    /\ \E rendered \in Renders(tasks[i].hook.stdin) :
          LET task == tasks[i]
          IN  tasks' = [tasks EXCEPT ![i] =
                   IF rendered THEN [task EXCEPT !.pc = "wait", !.spawned = @ + 1]
                   ELSE IF task.attempt < Attempts(retries)
                   THEN [task EXCEPT !.attempt = @ + 1]
                   ELSE AfterHook(task, FALSE)]
    /\ UNCHANGED <<call, cfg, retries, fs, dirs, stateFile, pc, current_index,
                   wrapped_to_first, moved, stack, hist>>

\* HookRunner.run: the child process has ended
HookExit(i) ==
    /\ Awaiting
    /\ i \in 1..Len(tasks)
    /\ tasks[i].pc = "wait"
    /\ \E zero \in ExitStatus(tasks[i].hook.cmd, tasks[i].attempt, hist.kills) :
          LET task == tasks[i]
          IN  tasks' = [tasks EXCEPT ![i] =
                   IF zero THEN AfterHook(task, TRUE)
                   ELSE IF task.attempt < Attempts(retries)
                   THEN [task EXCEPT !.attempt = @ + 1, !.pc = "spawn"]
                   ELSE AfterHook(task, FALSE)]
    /\ fs' = Effect(fs, tasks[i].hook.cmd, tasks[i].entity)
    /\ UNCHANGED <<call, cfg, retries, dirs, stateFile, pc, current_index,
                   wrapped_to_first, moved, stack, hist>>

\* _process_entity: move_to_state to the destination or to _failed; the
\* rename of a file that is no longer there raises FileNotFoundError, which
\* nothing catches
TaskMove(i) ==
    /\ Awaiting
    /\ i \in 1..Len(tasks)
    /\ tasks[i].pc = "move"
    /\ LET task == tasks[i]
           transition == TopPhase.transitions[Top.ti]
       IN  IF task.entity \notin fs
           THEN /\ pc' = "crashed"
                /\ UNCHANGED <<fs, tasks, hist>>
           ELSE /\ fs' = MoveToState(fs, Top.phase, TargetState(task.success, transition),
                                     task.entity)
                /\ tasks' = [tasks EXCEPT ![i] =
                                [task EXCEPT !.moved = task.success,
                                             !.jump = ResultJump(task.success, transition),
                                             !.pc = "done"]]
                /\ hist' = [NoteMove(hist, task.success, Len(stack)) EXCEPT
                               !.jumpMoves =
                                   IF task.success /\ transition.jump \notin {None, Top.phase}
                                   THEN @ + 1 ELSE @]
                /\ pc' = pc
    /\ UNCHANGED <<call, cfg, retries, dirs, stateFile, current_index, wrapped_to_first,
                   moved, stack>>

\* --------------------------------------------------------------------- Next
Next ==
    \/ Startup
    \/ InitDone
    \/ LoadState
    \/ SelectPhase
    \/ AfterPhase
    \/ BatchBeginPass
    \/ BatchApplyTransition
    \/ BatchStartGroup
    \/ BatchGroupDone
    \/ BatchTransitionDone
    \/ BatchJump
    \/ BatchJumpsDone
    \/ BatchEndPass
    \/ EntityBeginPass
    \/ EntityNext
    \/ EntityFlow
    \/ EntityFlowResult
    \/ EntityEndPass
    \/ StartCompletion
    \/ CompletionDone
    \/ ReturnPhase
    \/ \E i \in 1..Len(tasks) : TaskStart(i)
    \/ \E i \in 1..Len(tasks) : HookSpawn(i)
    \/ \E i \in 1..Len(tasks) : HookExit(i)
    \/ \E i \in 1..Len(tasks) : TaskMove(i)

Spec == Init /\ [][Next]_vars

\* ------------------------------------------------- interrupted and resumed
\* What a new process of the engine starts from: nothing but the directory
\* tree and the state file survive the previous process.
NewProcess ==
    /\ pc' = "start"
    /\ current_index' = 0
    /\ wrapped_to_first' = FALSE
    /\ moved' = 0
    /\ stack' = <<>>
    /\ tasks' = <<>>

\* The uninterrupted run has returned: its final layout is kept for the
\* comparison, and the initial layout and state file are put back.
Rewind ==
    /\ pc = "done"
    /\ ~hist.second
    /\ NewProcess
    /\ fs' = hist.fs0
    /\ stateFile' = hist.stateFile0
    /\ dirs' = {<<f.phase, f.state>> : f \in hist.fs0}
    /\ hist' = [hist EXCEPT !.second = TRUE, !.ref = fs, !.passes = 0, !.runs = <<>>,
                            !.wraps = 0, !.moves = 0, !.mainMoved = 0, !.settled = {},
                            !.trace = <<>>, !.jumpMoves = 0]
    /\ UNCHANGED <<call, cfg, retries>>

\* The second run is killed between two phases of the main loop, after
\* run_phase() returned and before the next phase starts, and the engine is
\* run again.
Kill ==
    /\ hist.second
    /\ pc \in {"check", "select"}
    /\ hist.runs # <<>>
    /\ hist.kills < MaxKills
    /\ NewProcess
    /\ hist' = [hist EXCEPT !.kills = @ + 1, !.passes = 0, !.runs = <<>>,
                            !.jumpMoves = 0]
    /\ UNCHANGED <<call, cfg, retries, fs, dirs, stateFile>>

NextResume == Next \/ Rewind \/ Kill

SpecResume == Init /\ [][NextResume]_vars

\* ------------------------------------------------ one phase in both modes
\* The runs compared: a workflow of one phase without hooks, over the states
\* new, mid, done and rest, with up to three transitions in any declared
\* order and one basename in any of the states; and three workflows with
\* hooks and jumps, which are run as they are.  The transitions lead from
\* done to new to mid to rest, so that every run ends in both modes.
InitModes ==
    /\ LET rest == <<"e">>
           pool == {Plain(new, mid), Plain(new, rest), Plain(done, new),
                    Plain(mid, rest), Plain(done, mid), Plain(done, rest)}
           orders == {ts \in UNION {[1..n -> pool] : n \in 0..3} :
                         \A i, j \in 1..Len(ts) : ts[i] = ts[j] => i = j}
           hook_free == {Scenario(WorkflowConfig(
                                      <<PhaseConfig(tasks_, <<new, mid, done, rest>>, ts,
                                                    <<>>, PHASE_MODE_TRANSITIONS)>>,
                                      0, NoHook),
                                  {Path(tasks_, st, NameA) : st \in {new, mid, done, rest}}) :
                            ts \in orders}
           hooked == {sc \in Scenarios : sc.config \in {WfHooks, WfJumpBatch, WfJumpEntity}}
       IN  \E sc \in hook_free \cup hooked :
              /\ cfg = sc.config
              /\ ValidWorkflow(cfg)
              /\ fs \in {S \in SUBSET sc.files : Cardinality(S) <= MaxFiles}
    /\ stateFile = None
    /\ retries = EffectiveRetries(NoOverride, cfg)
    /\ hist = [fs0 |-> fs, stateFile0 |-> stateFile, passes |-> 0,
               runs |-> <<>>, wraps |-> 0, moves |-> 0, mainMoved |-> 0,
               settled |-> {}, second |-> FALSE, ref |-> {}, kills |-> 0,
               trace |-> <<>>, override |-> NoOverride, jumpMoves |-> 0]
    /\ dirs = {<<f.phase, f.state>> : f \in fs}
    /\ pc = "start"
    /\ current_index = 0
    /\ wrapped_to_first = FALSE
    /\ moved = 0
    /\ stack = <<>>
    /\ tasks = <<>>
    /\ call = NoCall

\* The run in Batch mode has returned: its final layout is kept, and the
\* same workflow with mode `entity` is run from the same initial layout.
Remode ==
    /\ pc = "done"
    /\ ~hist.second
    /\ Len(cfg.phases) = 1
    /\ cfg.init = NoHook /\ cfg.phases[1].completions = <<>>
    /\ \A k \in 1..Len(cfg.phases[1].transitions) :
          cfg.phases[1].transitions[k].cmd = NoCmd
    /\ cfg.phases[1].mode = PHASE_MODE_TRANSITIONS
    /\ NewProcess
    /\ cfg' = [cfg EXCEPT !.phases[1].mode = PHASE_MODE_ENTITY]
    /\ fs' = hist.fs0
    /\ stateFile' = hist.stateFile0
    /\ dirs' = {<<f.phase, f.state>> : f \in hist.fs0}
    /\ hist' = [hist EXCEPT !.second = TRUE, !.ref = fs, !.passes = 0, !.runs = <<>>,
                            !.wraps = 0, !.moves = 0, !.mainMoved = 0, !.settled = {},
                            !.trace = <<>>, !.jumpMoves = 0]
    /\ UNCHANGED <<call, retries>>

SpecModes == InitModes /\ [][Next \/ Remode]_vars

\* ------------------------------------------------------ hook environment
\* env._sanitize_token: upper case, then every character outside [A-Z0-9]
\* becomes "_".
SanitizeToken(raw) ==
    LET lower == <<"a", "b", "c", "d", "e", "f", "i", "l", "m", "n", "s", "t", "u">>
        upper == <<"A", "B", "C", "D", "E", "F", "I", "L", "M", "N", "S", "T", "U">>
    IN  [i \in 1..Len(raw) |->
            IF \E k \in 1..Len(lower) : raw[i] = lower[k]
            THEN upper[CHOOSE k \in 1..Len(lower) : raw[i] = lower[k]]
            ELSE IF IsDigit(raw[i]) \/ \E k \in 1..Len(upper) : raw[i] = upper[k]
            THEN raw[i]
            ELSE "_"]

\* build_defined_hook_env: the name of the binding of a state directory
DirKey(phase_name, state_name) ==
    <<"D", "I", "R", "_">> \o SanitizeToken(phase_name) \o <<"_">>
        \o SanitizeToken(state_name)

\* build_defined_hook_env: dir_env, filled phase by phase and state by state,
\* a later pair replacing an earlier one of the same name; the value is the
\* directory, as <<phase, state>>
DirEnv(config) ==
    LET pairs == UNION {{<<i, k>> : k \in 1..Len(config.phases[i].states)} :
                           i \in 1..Len(config.phases)}
        key(pr) == DirKey(config.phases[pr[1]].name, config.phases[pr[1]].states[pr[2]])
        later(x, y) == x[1] < y[1] \/ (x[1] = y[1] /\ x[2] < y[2])
    IN  [name \in {key(pr) : pr \in pairs} |->
            LET pr == CHOOSE x \in pairs :
                          /\ key(x) = name
                          /\ \A y \in pairs : key(y) = name => ~later(x, y)
            IN  <<config.phases[pr[1]].name, config.phases[pr[1]].states[pr[2]]>>]

\* TemplateRenderer.render: a template is modelled by the names it refers
\* to; with StrictUndefined it renders exactly when each of them is in the
\* context, and the result is determined by the values found there.
CanRender(template, context) == template \subseteq DOMAIN context
Render(template, context) == [name \in template |-> context[name]]

\* _render_workflow_env: one `for key in list(remaining)` round.  `todo` is
\* what the round still has to try, `kept` what it could not render.
RECURSIVE RenderRound(_, _, _, _, _)
RenderRound(todo, kept, rendered, dir_env, progressed) ==
    IF todo = <<>> THEN [remaining |-> kept, rendered |-> rendered, progressed |-> progressed]
    ELSE LET entry == Head(todo)
             context == rendered @@ dir_env
         IN  IF CanRender(entry.template, context)
             THEN RenderRound(Tail(todo), kept,
                              (entry.key :> Render(entry.template, context)) @@ rendered,
                              dir_env, TRUE)
             ELSE RenderRound(Tail(todo), Append(kept, entry), rendered, dir_env,
                              progressed)

\* faulty variant: the loop gives up after its first round
RenderRoundsOnce(remaining, rendered, dir_env, rounds) ==
    LET round == RenderRound(remaining, <<>>, rendered, dir_env, FALSE)
    IN  IF remaining = <<>> THEN [ok |-> TRUE, rendered |-> rendered, rounds |-> rounds]
        ELSE [ok |-> round.remaining = <<>>, rendered |-> round.rendered,
              rounds |-> rounds + 1]

\* _render_workflow_env: `while remaining`, WorkflowError after a round
\* without progress
RECURSIVE RenderRounds(_, _, _, _)
RenderRounds(remaining, rendered, dir_env, rounds) ==
    IF remaining = <<>> THEN [ok |-> TRUE, rendered |-> rendered, rounds |-> rounds]
    ELSE LET round == RenderRound(remaining, <<>>, rendered, dir_env, FALSE)
         IN  IF round.progressed
             THEN RenderRounds(round.remaining, round.rendered, dir_env, rounds + 1)
             ELSE [ok |-> FALSE, rendered |-> round.rendered, rounds |-> rounds + 1]

\* _render_workflow_env(raw_env, dir_env, root); raw_env in declaration order
RenderWorkflowEnv(raw_env, dir_env) == RenderRounds(raw_env, <<>>, dir_env, 0)

\* build_defined_hook_env: rendered_env | dir_env, when the env renders
BuildDefinedHookEnv(raw_env, config) ==
    DirEnv(config) @@ RenderWorkflowEnv(raw_env, DirEnv(config)).rendered

\* os.environ of the engine's process: U is defined there and nowhere among
\* the workflow's names, A is defined there as well; a value of the process
\* environment is the rendering of no template
ProcessEnv == (<<"U">> :> (<<"environ">> :> <<>>)) @@ (<<"A">> :> (<<"environ">> :> <<>>))

\* build_hook_env_from_defined: what a hook process gets as its environment
BuildHookEnvFromDefined(defined_env) == defined_env @@ ProcessEnv

\* faulty variant: the template context is built on the process environment
StdinContextWithEnviron(template_env, extra_env) ==
    extra_env @@ BuildHookEnvFromDefined(template_env)

\* HookRunner.run: template_env = self._template_env | extra_env
StdinContext(template_env, extra_env) == extra_env @@ template_env

\* ------------------------------------------------------ runtime state file
\* The text of the state file as the tokens of JSON: a punctuation mark, a
\* literal (null, a number) or a string.
Tok(kind, text) == [kind |-> kind, text |-> text]

\* json.loads: the value of a text, or a JSONDecodeError.  A value is
\* [type, str, members, items]; a later member of an object replaces an
\* earlier one of the same key when the object is read.
JsonLoads(text) ==
    LET fail == [ok |-> FALSE, value |-> <<>>, next |-> 0]
        val(type, str, members, items, next) ==
            [ok |-> TRUE, next |-> next,
             value |-> [type |-> type, str |-> str, members |-> members, items |-> items]]
        is(i, mark) == i <= Len(text) /\ text[i] = Tok("punct", <<mark>>)
        RECURSIVE ParseValue(_), ParseMembers(_, _), ParseItems(_, _)
        ParseValue(i) ==
            IF i > Len(text) THEN fail
            ELSE IF text[i].kind = "str" THEN val("string", text[i].text, <<>>, <<>>, i + 1)
            ELSE IF text[i].kind = "lit"
                 THEN val(IF text[i].text = <<"null">> THEN "null" ELSE "number",
                          <<>>, <<>>, <<>>, i + 1)
            ELSE IF is(i, "{")
                 THEN IF is(i + 1, "}") THEN val("object", <<>>, <<>>, <<>>, i + 2)
                      ELSE ParseMembers(i + 1, <<>>)
            ELSE IF is(i, "[")
                 THEN IF is(i + 1, "]") THEN val("array", <<>>, <<>>, <<>>, i + 2)
                      ELSE ParseItems(i + 1, <<>>)
            ELSE fail
        ParseMembers(i, members) ==
            IF i > Len(text) \/ text[i].kind # "str" \/ ~is(i + 1, ":") THEN fail
            ELSE LET v == ParseValue(i + 2)
                     ms == Append(members, [key |-> text[i].text, value |-> v.value])
                 IN  IF ~v.ok THEN fail
                     ELSE IF is(v.next, "}") THEN val("object", <<>>, ms, <<>>, v.next + 1)
                     ELSE IF is(v.next, ",") THEN ParseMembers(v.next + 1, ms)
                     ELSE fail
        ParseItems(i, items) ==
            LET v == ParseValue(i)
            IN  IF ~v.ok THEN fail
                ELSE IF is(v.next, "]")
                     THEN val("array", <<>>, <<>>, Append(items, v.value), v.next + 1)
                ELSE IF is(v.next, ",") THEN ParseItems(v.next + 1, Append(items, v.value))
                ELSE fail
        parsed == ParseValue(1)
    IN  IF parsed.ok /\ parsed.next = Len(text) + 1
        THEN [ok |-> TRUE, value |-> parsed.value]
        ELSE [ok |-> FALSE, value |-> <<>>]

\* the key current_phase of the state file
CURRENT_PHASE == <<"c", "p">>

\* RuntimeStateStore.load_current_phase over a state file [exists, utf8,
\* text]: what it returns, or the exception that leaves it
LoadCurrentPhase(file) ==
    LET returns(value) == [kind |-> "return", value |-> value]
        raises(error) == [kind |-> error, value |-> None]
        loaded == JsonLoads(file.text)
        payload == loaded.value
        keys == {k \in 1..Len(payload.members) : payload.members[k].key = CURRENT_PHASE}
        \* payload.get("current_phase")
        current == payload.members[CHOOSE k \in keys : \A l \in keys : l <= k].value
    IN  IF ~file.exists THEN returns(None)
        ELSE IF ~file.utf8 THEN raises("UnicodeDecodeError")
        ELSE IF ~loaded.ok THEN raises("WorkflowError")
        ELSE IF payload.type # "object" THEN raises("AttributeError")
        ELSE IF keys = {} \/ current.type = "null" THEN returns(None)
        ELSE IF current.type # "string" THEN raises("WorkflowError")
        ELSE returns(current.str)

\* RuntimeStateStore.save_current_phase: json.dumps of {"current_phase": ...}
\* written as UTF-8 over whatever the file held
SaveCurrentPhase(file, current_phase) ==
    [exists |-> TRUE, utf8 |-> TRUE,
     text |-> <<Tok("punct", <<"{">>), Tok("str", CURRENT_PHASE), Tok("punct", <<":">>),
                Tok("str", current_phase), Tok("punct", <<"}">>)>>]

\* ------------------------------------------------ functions called alone
\* The longest argument list of a call.
MaxArgs == 4
\* The largest number of names a template refers to.
MaxRefs == 2

\* _process_entity: the name of the variable that holds the entity's path
INPUT_ENTITY == <<"I", "N", "P", "U", "T", "_", "E", "N", "T", "I", "T", "Y">>

\* No run is in progress: only `call` changes.
NoRun ==
    /\ cfg = WfSimple /\ retries = 0 /\ fs = {} /\ dirs = {} /\ stateFile = None
    /\ pc = "none" /\ current_index = 0 /\ wrapped_to_first = FALSE /\ moved = 0
    /\ stack = <<>> /\ tasks = <<>> /\ hist = <<>>

\* the lists of at most MaxArgs distinct elements of S
ListsOf(S) ==
    {l \in UNION {[1..n -> S] : n \in 0..MaxArgs} :
        \A i, j \in 1..Len(l) : i # j => l[i] # l[j]}

\* EntityStore.group_entities(entities), for any list of files of a directory
\* (the engine itself passes listings, which are sorted by name)
CallGroupEntities ==
    /\ call.fn = "group_entities" /\ ~call.returned
    /\ call' = [call EXCEPT !.returned = TRUE, !.result = GroupEntities(call.arg)]
    /\ UNCHANGED engine

\* env._render_workflow_env(config.environment, dir_env, root)
CallRenderWorkflowEnv ==
    /\ call.fn = "render_workflow_env" /\ ~call.returned
    /\ call' = [call EXCEPT !.returned = TRUE,
                            !.result = RenderWorkflowEnv(call.arg, DirEnv(cfg))]
    /\ UNCHANGED engine

\* HookRunner.run(hook, extra_env, context) up to the rendering of the stdin
\* payload, in an engine built by app.run from a workflow with the mapping
\* raw_env (which has rendered, or the engine would not exist)
CallRenderStdin ==
    /\ call.fn = "render_stdin" /\ ~call.returned
    /\ LET template_env == BuildDefinedHookEnv(call.arg.raw_env, cfg)
           context == StdinContext(template_env, call.arg.extra_env)
       IN  call' = [call EXCEPT
                !.returned = TRUE,
                !.result = [template_env |-> template_env,
                            base_env |-> BuildHookEnvFromDefined(template_env),
                            context |-> context,
                            ok |-> CanRender(call.arg.stdin, context),
                            payload |-> IF CanRender(call.arg.stdin, context)
                                        THEN Render(call.arg.stdin, context)
                                        ELSE <<>>]]
    /\ UNCHANGED engine

\* env.build_defined_hook_env(config, root) for a workflow without `env`
CallBuildDefinedHookEnv ==
    /\ call.fn = "build_defined_hook_env" /\ ~call.returned
    /\ call' = [call EXCEPT !.returned = TRUE,
                            !.result = BuildDefinedHookEnv(<<>>, call.arg)]
    /\ UNCHANGED engine

\* load_current_phase() over a state file, or save_current_phase(phase)
\* over it and then load_current_phase()
CallStateStore ==
    /\ call.fn \in {"load_current_phase", "save_current_phase"} /\ ~call.returned
    /\ call' = [call EXCEPT
            !.returned = TRUE,
            !.result = IF call.fn = "load_current_phase"
                       THEN LoadCurrentPhase(call.arg.file)
                       ELSE LoadCurrentPhase(SaveCurrentPhase(call.arg.file,
                                                              call.arg.phase))]
    /\ UNCHANGED engine

\* the state files a run can find: none, bytes that are no UTF-8 text, and
\* texts that are JSON or are JSON with one token missing
StateFiles ==
    LET p(mark) == Tok("punct", <<mark>>)
        cp == Tok("str", CURRENT_PHASE)
        other == Tok("str", <<"o">>)
        t == Tok("str", tasks_)
        u == Tok("str", subtasks_)
        null == Tok("lit", <<"null">>)
        seven == Tok("lit", <<"7">>)
        json == {<<p("{"), cp, p(":"), t, p("}")>>,
                 <<p("{"), cp, p(":"), null, p("}")>>,
                 <<p("{"), cp, p(":"), seven, p("}")>>,
                 <<p("{"), cp, p(":"), p("["), t, p("]"), p("}")>>,
                 <<p("{"), cp, p(":"), p("{"), p("}"), p("}")>>,
                 <<p("{"), other, p(":"), t, p("}")>>,
                 <<p("{"), other, p(":"), seven, p(","), cp, p(":"), u, p("}")>>,
                 <<p("{"), cp, p(":"), seven, p(","), cp, p(":"), u, p("}")>>,
                 <<p("{"), p("}")>>,
                 <<p("["), p("]")>>,
                 <<p("["), cp, p(","), t, p("]")>>,
                 <<cp>>, <<null>>, <<seven>>}
        without(text, i) == SubSeq(text, 1, i - 1) \o SubSeq(text, i + 1, Len(text))
        texts == json \cup UNION {{without(text, i) : i \in 1..Len(text)} : text \in json}
    IN  {[exists |-> FALSE, utf8 |-> TRUE, text |-> <<>>],
         [exists |-> TRUE, utf8 |-> FALSE, text |-> <<>>]}
        \cup {[exists |-> TRUE, utf8 |-> TRUE, text |-> text] : text \in texts}

\* the `env` mappings of a workflow file: any names as keys, in any order.
\* A and B are names that the mapping can define, DIR_T_N is also the
\* binding of tasks/new, U is no name of the workflow.
RawEnvs ==
    LET keys == {<<"A">>, <<"B">>, DirKey(tasks_, new)}
        names == keys \cup {INPUT_ENTITY, <<"U">>}
        templates == {t \in SUBSET names : Cardinality(t) <= MaxRefs}
    IN  {env \in UNION {[1..n -> [key : keys, template : templates]] : n \in 0..3} :
            \A i, j \in 1..Len(env) : i # j => env[i].key # env[j].key}

InitCall ==
    /\ NoRun
    /\ \/ \E entities \in ListsOf({Path(tasks_, new, n) :
                                      n \in {NameA, NameB, Name01a, Name01b, Name02a}}) :
             call = [NoCall EXCEPT !.fn = "group_entities", !.arg = entities]
       \/ \E raw_env \in RawEnvs :
             call = [NoCall EXCEPT !.fn = "render_workflow_env", !.arg = raw_env]
       \/ \E raw_env \in {e \in RawEnvs : Len(e) <= 1
                                /\ RenderWorkflowEnv(e, DirEnv(cfg)).ok} :
          \E stdin \in {raw_env[i].template : i \in 1..Len(raw_env)}
                       \cup {t \in SUBSET {<<"A">>, <<"U">>, INPUT_ENTITY, DirKey(tasks_, done)} :
                                Cardinality(t) <= MaxRefs} :
          \E extra_env \in {<<>>, INPUT_ENTITY :> Path(tasks_, new, NameA)} :
             call = [NoCall EXCEPT !.fn = "render_stdin",
                                   !.arg = [raw_env |-> raw_env, stdin |-> stdin,
                                            extra_env |-> extra_env]]
       \/ LET names == {tasks_, <<"T">>, <<"t", "_", "n">>}
              states == {new, <<"N">>, <<"n", "-", "d">>, <<"n", "_", "d">>, done}
              phases == {PhaseConfig(name, sts, <<>>, <<>>, PHASE_MODE_TRANSITIONS) :
                            name \in names,
                            sts \in UNION {[1..n -> states] : n \in 1..2}}
          IN  \E config \in {WorkflowConfig(ps, 0, NoHook) :
                                ps \in UNION {[1..n -> phases] : n \in 1..2}} :
                 /\ ValidWorkflow(config)
                 /\ call = [NoCall EXCEPT !.fn = "build_defined_hook_env",
                                          !.arg = config]
       \/ \E file \in StateFiles :
             \/ call = [NoCall EXCEPT !.fn = "load_current_phase",
                                      !.arg = [file |-> file, phase |-> None]]
             \/ \E phase \in {tasks_, subtasks_, CURRENT_PHASE} :
                   call = [NoCall EXCEPT !.fn = "save_current_phase",
                                         !.arg = [file |-> file, phase |-> phase]]

NextCall ==
    \/ CallGroupEntities
    \/ CallRenderWorkflowEnv
    \/ CallRenderStdin
    \/ CallStateStore
    \/ CallBuildDefinedHookEnv

SpecCall == InitCall /\ [][NextCall]_vars

\* The engine takes every step it can, and every hook process ends.
LiveSpec == Spec /\ WF_vars(Next)

\* ------------------------------------------------------- claim vocabulary
\* every command a workflow can run
AllCmds(config) ==
    UNION { {config.phases[i].transitions[k].cmd :
                k \in 1..Len(config.phases[i].transitions)}
            \cup {config.phases[i].completions[k].cmd :
                k \in 1..Len(config.phases[i].completions)} :
            i \in 1..Len(config.phases) }
    \cup {config.init.cmd}

HooksCreateNoFiles(config) == \A cmd \in AllCmds(config) : cmd.effect # "cp"
HooksRemoveNoFiles(config) ==
    \A cmd \in AllCmds(config) : cmd.effect \notin {"rm_input", "rm_others"}

\* the states one transition away from a set of states
Successors(phase, S) ==
    {phase.transitions[k].destination :
        k \in {l \in 1..Len(phase.transitions) : phase.transitions[l].source \in S}}

RECURSIVE ReachableFrom(_, _, _)
ReachableFrom(phase, S, n) ==
    IF n = 0 THEN S ELSE ReachableFrom(phase, S \cup Successors(phase, S), n - 1)

\* no state of a phase can be reached from itself through its transitions
Acyclic(config) ==
    \A i \in 1..Len(config.phases) :
        LET phase == config.phases[i]
        IN  \A s \in Range(phase.states) :
                s \notin ReachableFrom(phase, Successors(phase, {s}), Len(phase.states))

RECURSIVE SumStates(_)
SumStates(phases) ==
    IF phases = <<>> THEN 0 ELSE Len(Head(phases).states) + SumStates(Tail(phases))

Terminated == pc \in {"done", "failed", "crashed"}
FreshStart == hist.stateFile0 = None

\* a file the engine has nothing left to do with
AtRest(config, f) ==
    \/ f.state = FAILED_STATE
    \/ FindTransitionFromState(PhaseNamed(config, f.phase), f.state) = 0

\* ------------------------------------------------------------------ claims
\* C1 as stated: with hooks that create no files the run ends normally after
\* at most |entities| x (sum over the phases of the number of states) passes.
C1_PassesWithinStatedBound ==
    (HooksCreateNoFiles(cfg) /\ pc = "done") =>
        hist.passes <= Cardinality(hist.fs0) * SumStates(cfg.phases)

\* C1 amended: for a workflow whose transitions form no cycle inside a phase
\* and whose hooks create no files, the run ends (normally, or by the error of
\* an unknown persisted phase, a failed init or completion hook, or a file that
\* vanished under a move) and never makes more than
\* 2 x (|phases| + |entities| x sum over the phases of the number of states)
\* passes.
C1_TerminatesWithinBound ==
    (Acyclic(cfg) /\ HooksCreateNoFiles(cfg)) =>
        /\ <>Terminated
        /\ [](hist.passes <= 2 * (Len(cfg.phases)
                                  + Cardinality(hist.fs0) * SumStates(cfg.phases)))

\* C1 witness: a run over two phases that moved files, ended normally and
\* needed more passes than the stated bound.
C1_Witness ==
    /\ pc = "done"
    /\ Acyclic(cfg) /\ HooksCreateNoFiles(cfg)
    /\ Len(cfg.phases) > 1
    /\ hist.moves > 1
    /\ hist.passes > Cardinality(hist.fs0) * SumStates(cfg.phases)

\* C2: from a fresh start with hooks that create no files, when the run
\* returns normally every file is in _failed or in a state that no transition
\* of its phase leaves.
C2_AllAtRestWhenDone ==
    (pc = "done" /\ FreshStart /\ HooksCreateNoFiles(cfg)) =>
        \A f \in fs : AtRest(cfg, f)

\* C2 witness: a fresh run over several phases ended normally, having moved a
\* file to a destination and another to _failed.
C2_Witness ==
    /\ pc = "done" /\ FreshStart /\ HooksCreateNoFiles(cfg)
    /\ Len(cfg.phases) > 1
    /\ \E f \in fs : f.state = FAILED_STATE /\ f \notin hist.fs0
    /\ \E f \in fs : f.state # FAILED_STATE /\ f \notin hist.fs0

\* C3: the run returns normally only directly after a run of the first phase
\* that moved nothing, and only after the main-loop index has wrapped to 0.
C3_ExitOnlyAtFirstPhaseAfterWrap ==
    pc = "done" =>
        /\ hist.runs[Len(hist.runs)] = [phase |-> cfg.phases[1].name, via |-> "main"]
        /\ hist.mainMoved = 0
        /\ hist.wraps >= 1

\* C3 witness: a normal return of a workflow of several phases in which an
\* earlier run of the first phase had moved files.
C3_Witness ==
    /\ pc = "done"
    /\ Len(cfg.phases) > 1
    /\ \E f \in fs : f.phase = cfg.phases[1].name /\ f \notin hist.fs0

\* C4: when the run terminates normally, every configured phase has been run
\* to its fixpoint after the last movement of an entity, whatever the
\* starting point.
C4_EveryPhaseSettledWhenDone ==
    pc = "done" => hist.settled = Range(PhaseOrder(cfg))

\* the files of a phase, over its state directories and _failed
PhaseFiles(files, phase_name) == {f \in files : f.phase = phase_name}

\* C5: when hooks neither create nor delete files, no step of the engine
\* lowers the number of files of a phase (its states plus _failed), also when
\* the same basename is present in several states or already in _failed.
C5_FileConservation ==
    [][(HooksCreateNoFiles(cfg) /\ HooksRemoveNoFiles(cfg)) =>
          \A p \in Range(PhaseOrder(cfg)) :
              Cardinality(PhaseFiles(fs', p)) >= Cardinality(PhaseFiles(fs, p))]_vars

\* the step in which coroutine i moves its entity after a hook that failed
FailedMoveStep(i) ==
    /\ i \in 1..Len(tasks)
    /\ tasks[i].kind = "entity"
    /\ tasks[i].pc = "move"
    /\ ~tasks[i].success
    /\ tasks[i].entity \in fs
    /\ Len(tasks') = Len(tasks)
    /\ tasks'[i].pc = "done"

\* the step in which the processor takes the results of its coroutines
CollectStep == pc = "running" /\ tasks # <<>> /\ tasks' = <<>> /\ pc' = "running"

C7_MissingEntityIsNoError == pc # "crashed"

\* C8: while a phase processor runs for phase P, the persisted current_phase
\* is P, under any nesting of jumps and after every jump return.
C8_PersistedPhaseIsActivePhase ==
    (pc = "running" /\ stack # <<>>) => stateFile = Top.phase

\* C8 witness: the caller of a jump moves an entity after the jump returned.
C8_Witness ==
    /\ pc = "running"
    /\ Len(stack) = 1
    /\ hist.runs[Len(hist.runs)].via = "jump"
    /\ tasks # <<>> /\ tasks[1].pc = "move"

\* the phases run by the main loop, in order (jump runs left out)
MainRuns == SelectSeq(hist.runs, LAMBDA r : r.via = "main")

\* the phase the run has to start with
StartPhase == IF FreshStart THEN cfg.phases[1].name ELSE hist.stateFile0

RepeatableHooks(config) ==
    /\ \A cmd \in AllCmds(config) :
          cmd.exit # "any" /\ cmd.effect \notin {"rm_input", "rm_others"}
    /\ \A i \in 1..Len(config.phases) : \A k \in 1..Len(config.phases[i].completions) :
          config.phases[i].completions[k].stdin # "file"
    /\ config.init.stdin # "file"

JumpEntryStep == Len(stack) >= 1 /\ Len(stack') = Len(stack) + 1

\* the step in which the target's run_phase returns to _run_jump
JumpReturnStep == Len(stack) >= 2 /\ Len(stack') = Len(stack) - 1 /\ pc' = "running"

\* C11: a jump to a phase J other than the current phase P persists J and
\* runs J from the start; J returns only at its fixpoint with its completion
\* hooks done, P is persisted again and the caller resumes where it was;
\* while J runs the suspended caller does nothing and every coroutine in
\* flight works on the innermost phase; at the return no entity of J is in
\* the source state of a transition of J.
C11_JumpRunsTargetToFixpoint ==
    [][/\ JumpEntryStep =>
             /\ Top'.phase # Top.phase
             /\ \E k \in 1..Len(TopPhase.transitions) :
                   TopPhase.transitions[k].jump = Top'.phase
             /\ stateFile' = Top'.phase
             /\ Top' = Frame(Top'.phase)
             /\ tasks' = <<>>
       /\ JumpReturnStep =>
             /\ Top.pc = "completions" /\ Top.ci > Len(TopPhase.completions)
             /\ Top.moved_this_pass = 0
             /\ tasks = <<>>
             /\ stateFile' = Top'.phase
             /\ stack' = SubSeq(stack, 1, Len(stack) - 1)
             /\ \A f \in fs' : f.phase = Top.phase => AtRest(cfg, f)
       /\ (Len(stack) >= 2 /\ Len(stack') >= Len(stack)) =>
             \A k \in 1..(Len(stack) - 1) : stack'[k] = stack[k]
       /\ \A i \in 1..Len(tasks) :
             (stack # <<>> /\ tasks[i].kind = "entity") =>
                 tasks[i].entity.phase = Top.phase]_vars

\* C11 witness: a jump has returned to its Batch caller after the target
\* phase moved the file that the producing hook had created in its source
\* state.
C11_Witness ==
    /\ pc = "running"
    /\ Len(stack) = 1
    /\ hist.runs[Len(hist.runs)].via = "jump"
    /\ stateFile = Top.phase
    /\ \E f \in fs :
          /\ f.phase = hist.runs[Len(hist.runs)].phase
          /\ f.state = done
          /\ \A g \in hist.fs0 : g.phase = f.phase => g.name # f.name

\* a Batch run is the innermost run_phase call
BatchTop == pc = "running" /\ stack # <<>> /\ TopPhase.mode = PHASE_MODE_TRANSITIONS

\* C12: in Batch mode the jump handler is called for transition T only
\* when every group of T has been processed in this pass, once per moved
\* entity; the pending jumps are always those of the current transition, and
\* none is pending when the next transition lists its source directory,
\* which it reads as the jumped-to phases left it.
C12_BatchJumpsFollowTheirTransition ==
    [][BatchTop =>
         /\ Top.pc = "trans" => Top.jumps = <<>>
         /\ (Top.pc \in {"group", "gather", "jumps"}) =>
               \A k \in 1..Len(Top.jumps) :
                   Top.jumps[k] = TopPhase.transitions[Top.ti].jump
         /\ (Top.pc = "group" /\ Len(stack') = Len(stack) /\ Top'.pc = "jumps") =>
               /\ Top.groups = <<>>
               /\ Len(Top'.jumps) =
                     IF TopPhase.transitions[Top.ti].jump # None THEN Top.moved ELSE 0
         /\ (JumpEntryStep \/ (Top.pc = "jumps" /\ Top.jumps # <<>>)) =>
               /\ Top.pc = "jumps" /\ Top.groups = <<>> /\ tasks = <<>>
               /\ stack'[Len(stack)].ti = Top.ti
               /\ stack'[Len(stack)].pc = "jumps"
               /\ stack'[Len(stack)].jumps = Tail(Top.jumps)
               /\ Head(Top.jumps) # Top.phase => JumpEntryStep /\ Top'.phase = Head(Top.jumps)
         /\ (Top.pc = "trans" /\ Len(stack') = Len(stack) /\ Top'.pc = "group") =>
               Top'.groups =
                  GroupEntities(ListEntities(fs, Top.phase,
                                             TopPhase.transitions[Top.ti].source))]_vars

\* C12 witness: the second transition of a Batch pass is about to list its
\* source after the jumps of the first one returned; the pass has moved one
\* entity itself and the jumped-to phases have moved more.
C12_Witness ==
    /\ BatchTop
    /\ Len(stack) = 1
    /\ Top.pc = "trans" /\ Top.ti = 2
    /\ Top.moved_this_pass = 1
    /\ hist.runs[Len(hist.runs)].via = "jump"
    /\ hist.moves >= 3

\* the step that handles a jump whose target is the phase that produced it
SelfJumpStep ==
    /\ pc = "running" /\ stack # <<>>
    /\ \/ /\ Top.pc = "jumps" /\ Top.jumps # <<>> /\ Head(Top.jumps) = Top.phase
       \/ /\ Top.pc = "flowing" /\ tasks # <<>> /\ tasks[1].pc = "done"
          /\ tasks[1].moved /\ tasks[1].jump = Top.phase

\* C13: a jump to the phase that produced it is ignored: no run of the
\* phase starts, no completion hook is run, the state file is not written,
\* and the caller goes on as after a move without a jump.
C13_SelfJumpIgnored ==
    [][SelfJumpStep =>
         /\ Len(stack') = Len(stack)
         /\ hist'.runs = hist.runs
         /\ stateFile' = stateFile
         /\ tasks' = <<>>
         /\ fs' = fs
         /\ pc' = pc
         /\ Top' = IF Top.pc = "jumps"
                   THEN [Top EXCEPT !.jumps = Tail(@)]
                   ELSE [Top EXCEPT !.moved = @ + 1, !.pc = "flow",
                                    !.current = Path(Top.phase,
                                                     TopPhase.transitions[Top.ti].destination,
                                                     Top.current.name)]]_vars

\* C13 witness: a PerEntity run goes on with its entity after a jump to its
\* own phase was ignored.
C13_Witness ==
    /\ pc = "running" /\ Len(stack) = 1
    /\ TopPhase.mode = PHASE_MODE_ENTITY
    /\ Top.pc = "flow" /\ Top.moved = 1
    /\ TopPhase.transitions[Top.ti].jump = Top.phase
    /\ Len(hist.runs) = 1

\* the entities of a sequence of groups, in order
RECURSIVE GroupMembers(_)
GroupMembers(groups) ==
    IF groups = <<>> THEN <<>>
    ELSE Head(groups).entities \o GroupMembers(Tail(groups))

\* C14: in a Batch pass the transitions are applied in declared order; the
\* coroutines in flight all process entities of the current transition's
\* source under that transition's hook, and the transition index moves on
\* only when every group is processed and nothing is in flight; each
\* transition lists its source as it is when its turn comes, so an entity
\* moved there by the transition before is processed in the same pass.  For
\* a and b in new with new->mid, mid->done both succeeding, the entities are
\* taken up in the order new/a, new/b, mid/a, mid/b.
C14_BatchOrdering ==
    /\ []((cfg = WfChainBatch /\ pc = "done"
             /\ hist.fs0 = {Path(tasks_, new, NameA), Path(tasks_, new, NameB)}
             /\ fs = {Path(tasks_, done, NameA), Path(tasks_, done, NameB)}) =>
             hist.trace = <<Path(tasks_, new, NameA), Path(tasks_, new, NameB),
                            Path(tasks_, mid, NameA), Path(tasks_, mid, NameB)>>)
    /\ [][BatchTop =>
            /\ tasks # <<>> => Top.pc \in {"gather", "completion"}
            /\ \A i \in 1..Len(tasks) : Top.pc = "gather" =>
                  /\ tasks[i].kind = "entity"
                  /\ tasks[i].entity.phase = Top.phase
                  /\ tasks[i].entity.state = TopPhase.transitions[Top.ti].source
                  /\ tasks[i].hook.cmd = TopPhase.transitions[Top.ti].cmd
            /\ (Len(stack') = Len(stack) /\ pc' = "running" /\ Top'.ti # Top.ti) =>
                  /\ tasks = <<>> /\ tasks' = <<>>
                  /\ \/ Top.pc = "pass" /\ Top'.ti = 1
                     \/ Top.pc \in {"jumps", "trans"} /\ Top'.ti = Top.ti + 1
                  /\ Top.pc = "jumps" => Top.jumps = <<>> /\ Top.groups = <<>>
            /\ (Len(stack') = Len(stack) /\ pc' = "running" /\ Top.pc = "trans"
                  /\ Top'.pc \in {"pass", "completions"}) =>
                  Top.ti = Len(TopPhase.transitions) + 1
            /\ (Len(stack') = Len(stack) /\ Top.pc = "trans" /\ Top.ti <= Len(TopPhase.transitions)
                  /\ Top' # Top) =>
                  LET listed == ListEntities(fs, Top.phase,
                                             TopPhase.transitions[Top.ti].source)
                  IN  IF listed = <<>> THEN Top'.pc = "trans"
                      ELSE Top'.pc = "group" /\ GroupMembers(Top'.groups) = listed
            /\ (Top.pc = "group" /\ Top.groups # <<>> /\ tasks' # tasks) =>
                  [i \in 1..Len(tasks') |-> tasks'[i].entity] = Head(Top.groups).entities]_vars

\* C14 witness: the Batch run of new->mid, mid->done over a and b has
\* returned with both entities in done.
C14_Witness ==
    /\ cfg = WfChainBatch /\ pc = "done"
    /\ hist.fs0 = {Path(tasks_, new, NameA), Path(tasks_, new, NameB)}
    /\ fs = {Path(tasks_, done, NameA), Path(tasks_, done, NameB)}
    /\ Len(hist.trace) = 4

\* a PerEntity run is the innermost run_phase call
EntityTop == pc = "running" /\ stack # <<>> /\ TopPhase.mode = PHASE_MODE_ENTITY

\* some transition of the phase has the state as its source
HasTransitionFrom(phase, state_name) ==
    \E k \in 1..Len(phase.transitions) : phase.transitions[k].source = state_name

\* C15: a PerEntity pass lists the entities of the phase's states by
\* basename, then parent path, and takes them in that order; one entity at a
\* time is processed, each time under the first declared transition from
\* its current state, and the next entity is taken only when no transition
\* applies to the current one or its move did not happen (hook failed).
\* For a and b in new with new->mid, mid->done both succeeding, the entities
\* are taken up in the order new/a, mid/a, new/b, mid/b.
C15_PerEntityOrdering ==
    /\ []((cfg = WfChainEntity /\ pc = "done"
             /\ hist.fs0 = {Path(tasks_, new, NameA), Path(tasks_, new, NameB)}
             /\ fs = {Path(tasks_, done, NameA), Path(tasks_, done, NameB)}) =>
             hist.trace = <<Path(tasks_, new, NameA), Path(tasks_, mid, NameA),
                            Path(tasks_, new, NameB), Path(tasks_, mid, NameB)>>)
    /\ [][EntityTop =>
            /\ \A i, j \in 1..Len(Top.ents) :
                  (Top.pc # "pass" /\ i < j) => PhaseKeyLess(Top.ents[i], Top.ents[j])
            /\ (Top.pc = "pass" /\ Top' # Top) =>
                  {Top'.ents[i] : i \in 1..Len(Top'.ents)} =
                      {f \in fs : f.phase = Top.phase /\ f.state \in Range(TopPhase.states)}
            /\ (Top.pc = "next" /\ Len(stack') = Len(stack) /\ Top'.pc = "flow") =>
                  Top'.current = Head(Top.ents) /\ Top'.ents = Tail(Top.ents)
            /\ Top.pc = "flowing" =>
                  /\ Len(tasks) = 1
                  /\ tasks[1].kind = "entity" /\ tasks[1].entity = Top.current
                  /\ TopPhase.transitions[Top.ti].source = Top.current.state
                  /\ \A l \in 1..(Top.ti - 1) :
                        TopPhase.transitions[l].source # Top.current.state
                  /\ tasks[1].hook.cmd = TopPhase.transitions[Top.ti].cmd
            /\ (tasks # <<>> /\ Top.pc # "flowing") => Top.pc = "completion"
            /\ (Top.pc = "flow" /\ Len(stack') = Len(stack) /\ Top'.pc = "next") =>
                  ~HasTransitionFrom(TopPhase, Top.current.state)
            /\ (Top.pc = "flowing" /\ Len(stack') = Len(stack) /\ Top'.pc = "next") =>
                  ~tasks[1].moved
            /\ (Top.pc = "flowing" /\ pc' = "running" /\ tasks' = <<>> /\ tasks[1].moved) =>
                  /\ stack'[Len(stack)].pc = "flow"
                  /\ stack'[Len(stack)].ents = Top.ents
                  /\ stack'[Len(stack)].current =
                        Path(Top.phase, TopPhase.transitions[Top.ti].destination,
                             Top.current.name)]_vars

\* C15 witness: the PerEntity run of new->mid, mid->done over a and b has
\* returned with both entities in done.
C15_Witness ==
    /\ cfg = WfChainEntity /\ pc = "done"
    /\ hist.fs0 = {Path(tasks_, new, NameA), Path(tasks_, new, NameB)}
    /\ fs = {Path(tasks_, done, NameA), Path(tasks_, done, NameB)}
    /\ Len(hist.trace) = 4

\* -------------------------------------------------------------- concurrency
\* the entities of the groups that wait behind the one being processed
LaterMembers == {GroupMembers(Tail(Top.groups))[k] :
                    k \in 1..Len(GroupMembers(Tail(Top.groups)))}

\* C16: the groups of a transition are processed one after the other in
\* listing order: the coroutines are those of the group at the head, which
\* holds the entities of one numeric prefix (or a single entity); no entity
\* of a later group has a coroutine, and the next group starts only when
\* every coroutine of the group has returned, its entity moved away.
C16_GroupBarrier ==
    [][(BatchTop /\ Top.pc \in {"group", "gather"}) =>
         /\ Top.pc = "group" => tasks = <<>>
         /\ Top.pc = "gather" =>
               /\ [i \in 1..Len(tasks) |-> tasks[i].entity] = Head(Top.groups).entities
               /\ \A i \in 1..Len(tasks) : tasks[i].entity \notin LaterMembers
               /\ \A i, j \in 1..Len(tasks) :
                     /\ GroupKey(tasks[i].entity.name) = GroupKey(tasks[j].entity.name)
                     /\ i # j => GroupKey(tasks[i].entity.name) # None
         /\ \A i, j \in 1..Len(GroupMembers(Top.groups)) :
               i < j => StrLess(GroupMembers(Top.groups)[i].name,
                                GroupMembers(Top.groups)[j].name)
         /\ (Top.pc = "gather" /\ Len(stack') = Len(stack) /\ Top'.pc = "group") =>
               /\ \A i \in 1..Len(tasks) :
                     tasks[i].pc = "done" /\ tasks[i].entity \notin fs
               /\ Top'.groups = Tail(Top.groups)]_vars

\* C16 witness: the coroutine of the second group runs its hook after both
\* members of the concurrent group before it were moved.
C16_Witness ==
    /\ BatchTop /\ Top.pc = "gather"
    /\ Len(tasks) = 1 /\ tasks[1].pc = "wait"
    /\ tasks[1].entity.name = NameA
    /\ Top.moved = 2
    /\ \A f \in fs : f.phase = Top.phase /\ f.name # NameA => f.state = done

\* the hook subprocesses that have been spawned and have not ended
HooksInFlight == {i \in 1..Len(tasks) : tasks[i].pc = "wait"}

\* more than one hook runs only for members of the concurrent group that
\* the innermost Batch run is processing
InOneConcurrentGroup ==
    Cardinality(HooksInFlight) > 1 =>
        /\ BatchTop /\ Top.pc = "gather"
        /\ Head(Top.groups).key # None /\ Len(Head(Top.groups).entities) > 1
        /\ \A i \in HooksInFlight :
              /\ tasks[i].kind = "entity"
              /\ tasks[i].entity.phase = Top.phase
              /\ tasks[i].entity.state = TopPhase.transitions[Top.ti].source
              /\ GroupKey(tasks[i].entity.name) # None
              /\ \A j \in HooksInFlight :
                    GroupKey(tasks[j].entity.name) = GroupKey(tasks[i].entity.name)

\* the situations in which a single hook runs at a time
OneAtATime ==
    \/ pc = "init"
    \/ EntityTop
    \/ BatchTop /\ Top.pc = "completion"
    \/ BatchTop /\ Top.pc = "gather" /\ ~Concurrent(Head(Top.groups))

\* C17 as stated: hooks in flight together belong to one concurrent group,
\* and a single hook is in flight in a non-concurrent group, in PerEntity
\* mode, during a jump, and for init and completion hooks.
C17_OneHookDuringJump ==
    /\ InOneConcurrentGroup
    /\ (OneAtATime \/ Len(stack) >= 2) => Cardinality(HooksInFlight) <= 1

\* C17: hooks in flight together belong to one concurrent group of one
\* transition of the innermost running phase; a single hook is in flight
\* in a non-concurrent group, in PerEntity mode (also for entities of one
\* numeric prefix) and for init and completion hooks; during a jump the
\* suspended caller has no hook in flight, while the jumped-to phase, when
\* it is a Batch phase, runs the hooks of its concurrent groups together.
C17_ParallelismWithinOneGroup ==
    /\ InOneConcurrentGroup
    /\ OneAtATime => Cardinality(HooksInFlight) <= 1
    /\ \A i \in 1..Len(tasks) :
          (stack # <<>> /\ tasks[i].kind = "entity") =>
              tasks[i].entity.phase = Top.phase /\ Top.pc \in {"gather", "flowing"}

\* C17 witness: the two hooks of a concurrent group are in flight in a
\* Batch phase that a PerEntity phase jumped to.
C17_Witness ==
    /\ Len(stack) = 2
    /\ BatchTop
    /\ Cardinality(HooksInFlight) = 2
    /\ PhaseNamed(cfg, stack[1].phase).mode = PHASE_MODE_ENTITY

\* C18: while a Batch run gathers a group of several entities with a
\* numeric prefix, every member can take its next step whatever the others
\* are doing: a member starts as soon as the members before it in the group
\* have started (none needs to have finished), a started member can spawn
\* its hook while other hooks are in flight, and every hook in flight can
\* be the next one to end.
C18_ConcurrentMembersDoNotWait ==
    (/\ Awaiting /\ BatchTop /\ Top.pc = "gather"
     /\ Head(Top.groups).key # None
     /\ Len(Head(Top.groups).entities) > 1) =>
        \A i \in 1..Len(tasks) :
            /\ (tasks[i].pc = "start" /\ \A j \in 1..(i - 1) : tasks[j].pc # "start")
                  => ENABLED TaskStart(i)
            /\ tasks[i].pc = "spawn" => ENABLED HookSpawn(i)
            /\ tasks[i].pc = "wait" => ENABLED HookExit(i)
            /\ tasks[i].pc = "move" => ENABLED TaskMove(i)

\* C18 witness: the second member of a concurrent group has finished its
\* hook and its move while the hook of the first member, spawned earlier,
\* is still in flight.
C18_Witness ==
    /\ BatchTop /\ Top.pc = "gather"
    /\ Head(Top.groups).key # None
    /\ Len(tasks) = 2
    /\ tasks[1].pc = "wait"
    /\ tasks[2].pc = "done" /\ tasks[2].moved
    /\ tasks[2].entity \notin fs

\* ------------------------------------------------------------------ retries
\* HookRunner.run has returned in coroutine i
Returned(i) == tasks[i].pc \in {"move", "done"} /\ tasks[i].attempt >= 1

\* C19: retries is the CLI override when given and the workflow's value
\* otherwise; a run call never goes beyond attempt retries+1; it returns
\* failure only after attempt retries+1; a command that exits 0 makes one
\* attempt, a command that never does fails, a command that first exits 0
\* on its second attempt succeeds, on that attempt, exactly when
\* 2 <= retries+1; and once run has returned no further attempt is made.
C19_RetryArithmetic ==
    /\ [](/\ retries = (IF hist.override # NoOverride THEN hist.override
                                                      ELSE cfg.retries)
          /\ \A i \in 1..Len(tasks) :
                /\ tasks[i].attempt <= retries + 1
                /\ tasks[i].spawned <= tasks[i].attempt
                /\ Returned(i) =>
                      /\ ~tasks[i].success => tasks[i].attempt = retries + 1
                      /\ tasks[i].hook.stdin = "none" =>
                            /\ tasks[i].spawned = tasks[i].attempt
                            /\ tasks[i].hook.cmd.exit = "zero" =>
                                  tasks[i].success /\ tasks[i].attempt = 1
                            /\ tasks[i].hook.cmd.exit = "nonzero" => ~tasks[i].success
                            /\ (tasks[i].hook.cmd.exit = "second" /\ hist.kills = 0) =>
                                  /\ tasks[i].success <=> 2 <= retries + 1
                                  /\ tasks[i].success => tasks[i].attempt = 2)
    /\ [][\A i \in 1..Len(tasks) :
            (Returned(i) /\ i <= Len(tasks') /\ tasks'[i].pc # "start") =>
                /\ tasks'[i].attempt = tasks[i].attempt
                /\ tasks'[i].spawned = tasks[i].spawned
                /\ tasks'[i].success = tasks[i].success]_vars

\* C19 witness: under --retries 1 the init hook that first exits 0 on its
\* second attempt has returned success after two attempts.
C19_Witness ==
    /\ cfg = WfRetry /\ pc = "init"
    /\ hist.override = 1
    /\ Returned(1)
    /\ tasks[1].success /\ tasks[1].attempt = 2 /\ tasks[1].spawned = 2

\* C20: a render that fails uses an attempt up without a spawn (failed
\* renders and spawns together stay within retries+1); a run call whose
\* every render failed has spawned nothing and returns failure; and an
\* entity of a transition whose stdin template never renders ends in
\* _failed.
C20_FailedRenderUsesAnAttempt ==
    /\ [](/\ \A i \in 1..Len(tasks) :
                /\ tasks[i].spawned <= tasks[i].attempt
                /\ tasks[i].attempt <= retries + 1
                /\ (Returned(i) /\ tasks[i].spawned = 0) =>
                      ~tasks[i].success /\ tasks[i].attempt = retries + 1
                /\ (Returned(i) /\ tasks[i].hook.stdin = "bad") =>
                      tasks[i].spawned = 0
          /\ (cfg = WfStdin /\ pc = "done" /\ hist.fs0 = {Path(tasks_, new, NameA)}) =>
                fs = {Path(tasks_, FAILED_STATE, NameA)})
    /\ [][\A i \in 1..Len(tasks) :
            (/\ tasks[i].kind = "entity" /\ tasks[i].pc = "move"
             /\ tasks'[i].pc = "done"
             /\ TopPhase.transitions[Top.ti].stdin = "bad") =>
                /\ tasks[i].spawned = 0
                /\ Path(Top.phase, FAILED_STATE, tasks[i].entity.name) \in fs']_vars

\* ------------------------------------------------------ hooks of the engine
\* C21: the hook that _process_entity runs for an entity is the
\* transition's command together with the transition's stdin template, and
\* a transition without a command spawns nothing and succeeds.
C21_TransitionHookCarriesStdin ==
    \A i \in 1..Len(tasks) :
        (tasks[i].kind = "entity" /\ stack # <<>> /\ Top.pc \in {"gather", "flowing"}) =>
            /\ tasks[i].hook = HookConfig(TopPhase.transitions[Top.ti].cmd,
                                          TopPhase.transitions[Top.ti].stdin)
            /\ (TopPhase.transitions[Top.ti].cmd = NoCmd /\ tasks[i].pc = "move") =>
                  tasks[i].success /\ tasks[i].spawned = 0

\* C22: a run_phase call is in its completion hooks only after a pass that
\* moved nothing; from then on it is the innermost call, it runs the hooks
\* one at a time in declared order, each once (the index goes up by one
\* exactly when the hook of that index has returned success), the engine
\* moves no entity, and the call returns only when the last hook has.
C22_CompletionsOnceAfterFixpoint ==
    /\ [](\A d \in 1..Len(stack) :
            stack[d].pc \in {"completions", "completion"} =>
                /\ d = Len(stack)
                /\ stack[d].moved_this_pass = 0
                /\ stack[d].ci \in 1..(Len(TopPhase.completions) + 1)
                /\ (stack[d].pc = "completion" /\ pc = "running") =>
                      /\ stack[d].ci <= Len(TopPhase.completions)
                      /\ Len(tasks) = 1 /\ tasks[1].kind = "hook"
                      /\ tasks[1].hook = TopPhase.completions[stack[d].ci]
                /\ stack[d].pc = "completions" => tasks = <<>>)
    /\ [][/\ (stack # <<>> /\ Top.pc \in {"completions", "completion"}) =>
               /\ hist'.moves = hist.moves
               /\ hist'.trace = hist.trace
               /\ IF Len(stack') = Len(stack)
                  THEN /\ Top'.phase = Top.phase
                       /\ Top'.pc \in {"completions", "completion"}
                       /\ Top'.ci \in {Top.ci, Top.ci + 1}
                       /\ Top'.ci = Top.ci + 1 <=>
                             /\ Top.pc = "completion" /\ Top'.pc = "completions"
                             /\ tasks[1].pc = "done" /\ tasks[1].success
                       /\ (Top.pc = "completions" /\ Top'.pc = "completion") =>
                             tasks'[1].pc = "start" /\ tasks'[1].attempt = 0
                  ELSE /\ Len(stack') = Len(stack) - 1
                       /\ Top.pc = "completions"
                       /\ Top.ci = Len(TopPhase.completions) + 1
          /\ (Len(stack') = Len(stack) /\ stack # <<>>
              /\ Top.pc \notin {"completions", "completion"}
              /\ Top'.pc \in {"completions", "completion"}) =>
                 /\ Top'.pc = "completions" /\ Top'.ci = 1
                 /\ Top.moved_this_pass = 0
          /\ Len(stack') < Len(stack) =>
                 Top.pc = "completions" /\ Top.ci = Len(TopPhase.completions) + 1]_vars

\* C22 witness: a phase run that moved nothing at all has run its first
\* completion hook and is running its second.
C22_Witness ==
    /\ cfg = WfHooks /\ stack # <<>>
    /\ Top.pc = "completion" /\ Top.ci = 2
    /\ Top.moved_total = 0
    /\ tasks[1].pc = "wait"

\* C23: when a completion hook has returned failure the run is aborted at
\* that point: the step that follows leaves the files, the state file and
\* the call stack as they are, and from the aborted run there is no
\* further step (no other completion hook, no phase, no move, no normal
\* end).
C23_FailedCompletionAborts ==
    /\ [][/\ (/\ pc = "running" /\ stack # <<>> /\ Top.pc = "completion"
              /\ tasks[1].pc = "done" /\ ~tasks[1].success) =>
                 /\ pc' = "failed"
                 /\ fs' = fs /\ stateFile' = stateFile /\ stack' = stack
          /\ pc # "failed"]_vars
    /\ [](pc = "failed" =>
            /\ tasks = <<>>
            /\ ~ENABLED Next
            /\ stack # <<>> =>
                  Top.pc = "completion" /\ Top.ci <= Len(TopPhase.completions))

\* C23 witness: the run is aborted at the first of two completion hooks.
C23_Witness ==
    /\ pc = "failed" /\ stack # <<>>
    /\ Top.pc = "completion" /\ Top.ci = 1
    /\ Len(TopPhase.completions) = 2

\* C24: a run with an init hook goes from its start to the init hook and
\* nowhere else, and never comes back to it; while the init hook runs the
\* directories exist, no phase has been started, no entity has been moved
\* and the state file is as the run found it; the state file is read only
\* once the hook has returned success; a hook that returned failure aborts
\* the run there, with the files and the state file unchanged.
C24_InitOnceBeforeAnything ==
    /\ [](/\ pc = "init" =>
                /\ cfg.init # NoHook
                /\ Len(tasks) = 1 /\ tasks[1].kind = "hook" /\ tasks[1].hook = cfg.init
                /\ PhaseDirs(cfg) \subseteq dirs
          /\ pc \in {"start", "init"} =>
                /\ stack = <<>> /\ hist.runs = <<>> /\ hist.moves = 0
                /\ stateFile = hist.stateFile0
                /\ current_index = 0
          /\ (pc = "failed" /\ stack = <<>>) =>
                /\ ~ENABLED Next
                /\ hist.runs = <<>> /\ hist.moves = 0
                /\ stateFile = hist.stateFile0)
    /\ [][/\ pc = "start" => pc' = (IF cfg.init = NoHook THEN "load" ELSE "init")
          /\ pc' = "init" => pc \in {"start", "init"}
          /\ pc' = "start" => pc = "start"
          /\ (pc' = "load" /\ pc # "load" /\ cfg.init # NoHook) =>
                pc = "init" /\ tasks[1].pc = "done" /\ tasks[1].success
          /\ (pc = "init" /\ tasks[1].pc = "done" /\ ~tasks[1].success) =>
                /\ pc' = "failed"
                /\ fs' = fs /\ stateFile' = stateFile /\ stack' = <<>>]_vars

\* C24 witness: the init hook has failed on its last attempt and the run is
\* aborted with an entity still where the run found it and no state file.
C24_Witness ==
    /\ pc = "failed" /\ stack = <<>>
    /\ cfg.init # NoHook
    /\ hist.stateFile0 = None /\ stateFile = None
    /\ fs = hist.fs0 /\ fs # {}

\* C25: in a run that finds a state file naming a phase the configuration
\* does not have, no phase is ever started, no entity is taken up or moved,
\* the only hook that runs is the init hook, the state file stays as found,
\* and reading it aborts the run.
C25_UnknownPhaseAborts ==
    /\ [](hist.stateFile0 \notin ({None} \cup Range(PhaseOrder(cfg))) =>
            /\ pc \in {"start", "init", "load", "failed"}
            /\ stack = <<>>
            /\ hist.runs = <<>> /\ hist.moves = 0 /\ hist.trace = <<>>
            /\ stateFile = hist.stateFile0
            /\ tasks # <<>> => pc = "init" /\ tasks[1].hook = cfg.init
            /\ pc = "failed" => ~ENABLED Next)
    /\ [][(pc = "load" /\ stateFile \notin ({None} \cup Range(PhaseOrder(cfg)))) =>
             pc' = "failed" /\ fs' = fs]_vars

\* C25 witness: the run is aborted with the unknown phase still in the
\* state file and the entities where they were, after an init hook that
\* succeeded.
C25_Witness ==
    /\ pc = "failed"
    /\ stateFile \notin ({None} \cup Range(PhaseOrder(cfg)))
    /\ cfg.init # NoHook
    /\ fs # {} /\ fs = hist.fs0

\* ------------------------------------------------------------------ grouping
\* C26: the groups of group_entities are non-empty, their concatenation is
\* the input; two adjacent entities are in one group exactly when both have
\* a numeric prefix and the prefixes are equal; a group records the prefix
\* of its members; an entity without a prefix is a group of its own, so
\* that a group is concurrent exactly when it has several entities; and
\* two entities of one prefix with an entity of another or of no prefix
\* between them are in different groups.
C26_GroupsAreRunsOfOnePrefix ==
    (call.fn = "group_entities" /\ call.returned) =>
        LET entities == call.arg
            groups == call.result
            key(p) == GroupKey(entities[p].name)
            last(g) == Len(GroupMembers(SubSeq(groups, 1, g)))
            group_of(p) == CHOOSE g \in 1..Len(groups) : last(g - 1) < p /\ p <= last(g)
        IN  /\ GroupMembers(groups) = entities
            /\ \A g \in 1..Len(groups) :
                  /\ groups[g].entities # <<>>
                  /\ \A m \in 1..Len(groups[g].entities) :
                        GroupKey(groups[g].entities[m].name) = groups[g].key
                  /\ groups[g].key = None => Len(groups[g].entities) = 1
                  /\ Concurrent(groups[g]) <=> Len(groups[g].entities) > 1
            /\ \A p \in 1..(Len(entities) - 1) :
                  group_of(p) = group_of(p + 1) <=> (key(p) # None /\ key(p) = key(p + 1))
            /\ \A p, q, r \in 1..Len(entities) :
                  (p < q /\ q < r /\ key(p) # None /\ key(p) = key(r) /\ key(q) # key(p))
                      => group_of(p) # group_of(r)

\* C26 witness: 01-a, a, 01-b, 02-a is split into four groups, the two
\* entities of prefix 01 apart.
C26_Witness ==
    /\ call.fn = "group_entities" /\ call.returned
    /\ call.arg = <<Path(tasks_, new, Name01a), Path(tasks_, new, NameA),
                    Path(tasks_, new, Name01b), Path(tasks_, new, Name02a)>>
    /\ Len(call.result) = 4

\* ------------------------------------------------------------ failure bucket
\* C27: no transition of the configuration starts or ends at _failed; no
\* listing, group, coroutine or processed entity of a run is a file of a
\* _failed directory; and a file that is in a _failed directory stays
\* there through every step of the engine, also after the process has been
\* killed and started again.
C27_FailureBucketIsTerminal ==
    /\ [](/\ \A i \in 1..Len(cfg.phases) : \A k \in 1..Len(cfg.phases[i].transitions) :
                /\ cfg.phases[i].transitions[k].source # FAILED_STATE
                /\ cfg.phases[i].transitions[k].destination # FAILED_STATE
          /\ \A i \in 1..Len(tasks) :
                tasks[i].kind = "entity" => tasks[i].entity.state # FAILED_STATE
          /\ \A i \in 1..Len(hist.trace) : hist.trace[i].state # FAILED_STATE
          /\ \A d \in 1..Len(stack) :
                /\ stack[d].current.state # FAILED_STATE
                /\ \A i \in 1..Len(stack[d].ents) : stack[d].ents[i].state # FAILED_STATE
                /\ \A g \in 1..Len(stack[d].groups) :
                      \A i \in 1..Len(stack[d].groups[g].entities) :
                          stack[d].groups[g].entities[i].state # FAILED_STATE)
    /\ [][hist'.second = hist.second =>
             \A f \in fs : f.state = FAILED_STATE => f \in fs']_vars

\* C27 witness: a run that was killed and started again has ended with a
\* file in a _failed directory.
C27_Witness ==
    /\ pc = "done"
    /\ hist.kills = 1
    /\ \E f \in fs : f.state = FAILED_STATE

\* C28: once ensure_layout has run, the directory of every state of every
\* phase and the _failed directory of every phase exist, and no step of the
\* engine removes a directory.
C28_DirectoryCompleteness ==
    /\ [](pc # "start" =>
            \A i \in 1..Len(cfg.phases) :
                /\ <<cfg.phases[i].name, FAILED_STATE>> \in dirs
                /\ \A k \in 1..Len(cfg.phases[i].states) :
                      <<cfg.phases[i].name, cfg.phases[i].states[k]>> \in dirs)
    /\ [][dirs \subseteq dirs']_vars

\* C28 witness: a run started on an empty root has ended, with a failure
\* directory in place.
C28_Witness ==
    /\ pc = "done"
    /\ hist.fs0 = {}
    /\ <<cfg.phases[1].name, FAILED_STATE>> \in dirs
    /\ Len(cfg.phases) = 3

C31_PersistedPhaseAtExitIsFirst ==
    pc = "done" => stateFile = PhaseOrder(cfg)[1]

\* C31 witness: a run of a workflow of several phases that started at a
\* later phase than the first and took a jump has returned normally.
C31_Witness ==
    /\ pc = "done"
    /\ Len(cfg.phases) > 1
    /\ hist.stateFile0 \in Range(PhaseOrder(cfg)) \ {PhaseOrder(cfg)[1]}
    /\ \E k \in 1..Len(hist.runs) : hist.runs[k].via = "jump"

\* C32: save_current_phase(n) followed by load_current_phase returns n;
\* load_current_phase returns none when the file is absent or is a JSON
\* object without the key current_phase, returns the string when the key
\* holds one, and for every other content (no JSON text, JSON that is no
\* object, a current_phase that is no string) raises the workflow error
\* and nothing else.
C32_StateStoreContract ==
    /\ (call.fn = "save_current_phase" /\ call.returned) =>
          call.result = [kind |-> "return", value |-> call.arg.phase]
    /\ (call.fn = "load_current_phase" /\ call.returned) =>
          LET file == call.arg.file
              loaded == JsonLoads(file.text)
              object == file.exists /\ file.utf8 /\ loaded.ok
                        /\ loaded.value.type = "object"
              \* the value of the key: of its last member, as JSON is read
              keys == {k \in 1..Len(loaded.value.members) :
                          loaded.value.members[k].key = CURRENT_PHASE}
              held == {loaded.value.members[k].value :
                          k \in {l \in keys : \A m \in keys : m <= l}}
          IN  IF ~file.exists \/ (object /\ held = {})
              THEN call.result = [kind |-> "return", value |-> None]
              ELSE IF object /\ \A v \in held : v.type = "string"
              THEN call.result.kind = "return"
                   /\ \E v \in held : call.result.value = v.str
              ELSE call.result.kind = "WorkflowError"

\* C33: for every (phase, state) of an accepted configuration, also when
\* names differ only by case or by characters outside [A-Z0-9], the hook
\* environment variable DIR_<sanitize(phase)>_<sanitize(state)> holds the
\* state directory of that pair.
C33_BindingHoldsOwnDirectory ==
    (call.fn = "build_defined_hook_env" /\ call.returned) =>
        \A i \in 1..Len(call.arg.phases) :
            \A k \in 1..Len(call.arg.phases[i].states) :
                LET phase_name == call.arg.phases[i].name
                    state_name == call.arg.phases[i].states[k]
                IN  /\ DirKey(phase_name, state_name) \in DOMAIN call.result
                    /\ call.result[DirKey(phase_name, state_name)]
                          = <<phase_name, state_name>>

\* ------------------------------------------------------- moves and jumps
\* C34: a move of the engine takes the entity from <P>/<s> to <P>/<s'> with
\* its basename, where P is the phase being processed and s' the
\* destination of the transition or _failed, also in a phase run by a jump;
\* the entities other than the moved one are after the move what they were
\* before it; and no other step of the engine changes the files (a hook
\* process that ends may).
C34_MoveKeepsNameAndPhase ==
    [][LET moving == {i \in 1..Len(tasks) :
                         /\ tasks[i].kind = "entity" /\ tasks[i].pc = "move"
                         /\ Len(tasks') = Len(tasks) /\ tasks'[i].pc = "done"}
           ending == {i \in 1..Len(tasks) :
                         /\ tasks[i].pc = "wait"
                         /\ Len(tasks') = Len(tasks) /\ tasks'[i].pc # "wait"}
       IN  /\ (moving = {} /\ ending = {}) => fs' = fs
           /\ \A i \in moving :
                 LET entity == tasks[i].entity
                     transition == TopPhase.transitions[Top.ti]
                 IN  /\ entity.phase = Top.phase
                     /\ entity.state = transition.source
                     /\ \E state_name \in {transition.destination, FAILED_STATE} :
                           /\ Path(Top.phase, state_name, entity.name) \in fs'
                           /\ fs' \ {Path(Top.phase, state_name, entity.name)}
                                 = fs \ {entity}
                     /\ \A f \in fs' \ fs : f.phase = Top.phase /\ f.name = entity.name]_vars

\* C35: the jump handler is invoked once for each entity moved with success
\* under a transition that jumps to another phase (a jump to the phase
\* itself is ignored): when _apply_transition returns in Batch mode it has
\* queued as many jumps as it moved entities, each queued jump starts one
\* run of the target, and every such run returns only from its fixpoint with
\* its completion hooks run; entities sent to _failed or skipped as missing
\* add nothing.  So, at any time, the moves under jumping transitions are
\* the runs started by jumps plus the jumps still queued.
C35_OneJumpPerMovedEntity ==
    /\ [](LET jump_runs == {k \in 1..Len(hist.runs) : hist.runs[k].via = "jump"}
              queued == {<<d, k>> \in (1..Len(stack)) \X (1..MaxFiles) :
                            /\ k <= Len(stack[d].jumps)
                            /\ stack[d].jumps[k] # stack[d].phase}
              returned == {i \in 1..Len(tasks) :
                              /\ tasks[i].kind = "entity" /\ tasks[i].pc = "done"
                              /\ tasks[i].moved
                              /\ tasks[i].jump \notin {None, Top.phase}}
          IN  /\ hist.jumpMoves
                    = Cardinality(jump_runs) + Cardinality(queued) + Cardinality(returned)
              /\ \A d \in 1..Len(stack) : Len(stack[d].jumps) <= MaxFiles
              /\ pc = "done" => hist.jumpMoves = Cardinality(jump_runs))
    /\ [][/\ (Running("group") /\ Top.groups = <<>> /\ stack'[Len(stack)].pc = "jumps") =>
                Len(Top.jumps) = IF TopPhase.transitions[Top.ti].jump # None
                                 THEN Top.moved ELSE 0
          /\ \A i \in 1..Len(tasks) :
                (tasks[i].kind = "entity" /\ tasks[i].pc # "done"
                 /\ Len(tasks') = Len(tasks) /\ tasks'[i].pc = "done"
                 /\ ~(tasks[i].pc = "move" /\ tasks[i].success)) =>
                    ~tasks'[i].moved /\ tasks'[i].jump = None
          /\ JumpReturnStep =>
                /\ Top.pc = "completions" /\ Top.ci = Len(TopPhase.completions) + 1
                /\ Top.moved_this_pass = 0]_vars

\* C35 witness: one application of a jumping transition in Batch mode has
\* moved two entities and both of its jumps have run the target phase, which
\* has a completion hook.
C35_Witness ==
    /\ Running("jumps") /\ Len(stack) = 1
    /\ TopPhase.mode = PHASE_MODE_TRANSITIONS
    /\ Top.moved = 2 /\ Top.jumps = <<>>
    /\ TopPhase.transitions[Top.ti].jump \notin {None, Top.phase}
    /\ PhaseNamed(cfg, TopPhase.transitions[Top.ti].jump).completions # <<>>
    /\ Len(hist.runs) >= 3
    /\ hist.runs[Len(hist.runs)].via = "jump"
    /\ hist.runs[Len(hist.runs) - 1].via = "jump"

\* ------------------------------------------------------ the two modes
\* C36 as stated: a phase without hooks, run in Batch mode and in PerEntity
\* mode from the same initial layout, ends with the same placements, for
\* every declared order of its transitions and every initial placement.
C36_ModesEndAlike ==
    (pc = "done" /\ hist.second) => fs = hist.ref

\* C36 amended: the two modes end with the same placements whenever no
\* transition whose destination is a state s is declared between two
\* transitions whose source is s (so that, in a Batch pass, nothing comes
\* to s after the first transition from s has emptied it and before a later
\* one lists it).
C36_ModesEndAlikeWithoutRefill ==
    LET transitions == cfg.phases[1].transitions
        refilled == \E i, x, j \in 1..Len(transitions) :
                        /\ i < x /\ x < j
                        /\ transitions[i].source = transitions[j].source
                        /\ transitions[x].destination = transitions[i].source
    IN  (pc = "done" /\ hist.second /\ ~refilled) => fs = hist.ref

\* C36 witness: both runs have returned for a phase with two transitions
\* of the same source, a third one declared after them that leads to that
\* source, and the same basename in several states, and files were moved.
C36_Witness ==
    LET transitions == cfg.phases[1].transitions
    IN  /\ pc = "done" /\ hist.second
        /\ Len(transitions) = 3
        /\ transitions[1].source = transitions[2].source
        /\ transitions[3].destination = transitions[1].source
        /\ Cardinality(hist.fs0) >= 2
        /\ Path(tasks_, transitions[3].source, NameA) \in hist.fs0
        /\ fs # hist.fs0
        /\ fs = hist.ref

\* ---------------------------------------------------------- the main loop
\* C37: the main loop processes the phases in declared cyclic order: the
\* phase it processes after phases[i] is phases[(i + 1) mod N], whatever
\* jumps were taken inside phases[i]; while a phase runs, with or without
\* jumps in progress, the main-loop index stays what it is and names the
\* phase the main loop started.
C37_MainLoopCyclicOrder ==
    /\ [](/\ \A k \in 1..(Len(MainRuns) - 1) :
                IndexOf(cfg, MainRuns[k + 1].phase)
                    = (IndexOf(cfg, MainRuns[k].phase) + 1) % Len(cfg.phases)
          /\ (pc = "running" /\ stack # <<>>) =>
                stack[1].phase = PhaseOrder(cfg)[current_index + 1])
    /\ [][pc = "running" => current_index' = current_index]_vars

\* C37 witness: the main loop has started the phase after one inside which
\* a jump ran another phase than that one.
C37_Witness ==
    /\ pc = "running" /\ Len(stack) = 1
    /\ Len(cfg.phases) > 2
    /\ \E k \in 2..(Len(hist.runs) - 1) :
          /\ hist.runs[k - 1].via = "main"
          /\ hist.runs[k].via = "jump"
          /\ hist.runs[k + 1].via = "main"
          /\ k + 1 = Len(hist.runs)
          /\ hist.runs[k].phase # hist.runs[k + 1].phase
          /\ IndexOf(cfg, hist.runs[k + 1].phase)
                = (IndexOf(cfg, hist.runs[k - 1].phase) + 1) % Len(cfg.phases)

\* C38: from a fresh start, a run that returns normally has processed the
\* first phase at least twice in its main loop (never exactly once), also
\* when the workflow has one phase and there are no entities; and every
\* processing of a phase returns to the main loop only after the phase's
\* completion hooks, so these have run at least twice as well.
C38_FirstPhaseAtLeastTwice ==
    /\ []((pc = "done" /\ FreshStart) =>
            Cardinality({k \in 1..Len(MainRuns) :
                            MainRuns[k].phase = PhaseOrder(cfg)[1]}) >= 2)
    /\ [][(pc = "running" /\ pc' = "check") =>
             /\ Top.pc = "completions"
             /\ Top.ci = Len(TopPhase.completions) + 1]_vars

\* C38 witness: a fresh run of a single-phase workflow with completion
\* hooks and no entities has returned after processing the phase twice.
C38_Witness ==
    /\ pc = "done" /\ FreshStart
    /\ Len(cfg.phases) = 1
    /\ cfg.phases[1].completions # <<>>
    /\ hist.fs0 = {} /\ fs = {}
    /\ Len(MainRuns) = 2

\* C39: when a completion hook of a phase J that runs by a jump from phase
\* P has failed on all its attempts, the run is aborted with J persisted:
\* the abort writes nothing, P is not saved again, and the start index a
\* new run computes from the state file is that of J.
C39_AbortInJumpLeavesTargetPersisted ==
    /\ []((pc = "failed" /\ Len(stack) >= 2) =>
            /\ stateFile = Top.phase
            /\ stateFile # stack[Len(stack) - 1].phase
            /\ PhaseOrder(cfg)[StartIndex(cfg, stateFile) + 1] = Top.phase)
    /\ [][(pc = "running" /\ pc' = "failed") =>
             /\ Top.pc = "completion"
             /\ tasks[1].pc = "done" /\ ~tasks[1].success
             /\ tasks[1].attempt = Attempts(retries)
             /\ stateFile' = stateFile /\ stack' = stack /\ fs' = fs]_vars

\* C39 witness: the run was aborted by the completion hook of a phase that
\* a jump from the first phase was running; the jump's target, which is not
\* the first phase, is what the state file holds.
C39_Witness ==
    /\ pc = "failed" /\ Len(stack) = 2
    /\ stack[1].phase = PhaseOrder(cfg)[1]
    /\ stateFile = stack[2].phase
    /\ stateFile = PhaseOrder(cfg)[2]
    /\ hist.moves > 0

====
